---------------------------- MODULE Spec2Model ----------------------------
(***************************************************************************)
(* The knowledge base of knowledge/enhanced_coffee_knowledge_handler.py:   *)
(* EnhancedCoffeeKnowledgeBase, its five-minute cache over a directory of  *)
(* .mdx files, and the operations that read it.                            *)
(*                                                                         *)
(* Python strings are TLA+ strings, read as sequences of one-character     *)
(* strings (Len, SubSeq, Head, Tail and \o apply to them).  Scores that    *)
(* the code keeps as floats with one decimal are kept as integers: the     *)
(* relevance score in units of 1.0 (every weight is a whole number), the   *)
(* similarity score in units of 0.1.                                       *)
(***************************************************************************)
EXTENDS Integers, Sequences, FiniteSets, TLC

(***************************************************************************)
(* Python's None.                                                          *)
(***************************************************************************)
None == [t |-> "None"]

(***************************************************************************)
(* str: characters, lower(), strip(), split(), join(), the in operator,    *)
(* and re.findall(r'\b\w+\b', s).                                          *)
(***************************************************************************)
UpperChars == "ABCDEFGHIJKLMNOPQRSTUVWXYZ"
LowerChars == "abcdefghijklmnopqrstuvwxyz"
DigitChars == "0123456789"

CharAt(s, i) == SubSeq(s, i, i)
CharSet(s) == {CharAt(s, i) : i \in 1..Len(s)}

UpperSet == CharSet(UpperChars)
DigitSet == CharSet(DigitChars)
\* \w of the re module, on the ASCII characters the corpus uses.
WordCharSet == CharSet(UpperChars) \cup CharSet(LowerChars) \cup CharSet(DigitChars) \cup {"_"}
\* str.isspace(): what strip() and split() remove.
WhitespaceSet == {" ", "\t", "\n", "\r"}

LowerOf == [c \in UpperSet |->
              CharAt(LowerChars, CHOOSE i \in 1..Len(UpperChars) : CharAt(UpperChars, i) = c)]
LowerChar(c) == IF c \in UpperSet THEN LowerOf[c] ELSE c

\* A string, or a sequence, from a function on 1..n that gives its pieces.
RECURSIVE ConcatRange(_, _, _)
ConcatRange(piece, lo, hi) ==
    IF lo > hi THEN ""
    ELSE IF lo = hi THEN piece[lo]
    ELSE LET mid == (lo + hi) \div 2
         IN  ConcatRange(piece, lo, mid) \o ConcatRange(piece, mid + 1, hi)

\* The k-th smallest element of a set of integers.
KthSmallest(P, k) == CHOOSE i \in P : Cardinality({j \in P : j < i}) = k - 1
Min(P) == CHOOSE i \in P : \A j \in P : i <= j
Max(P) == CHOOSE i \in P : \A j \in P : j <= i

str_lower(s) == ConcatRange([i \in 1..Len(s) |-> LowerChar(CharAt(s, i))], 1, Len(s))

str_strip(s) ==
    LET kept == {i \in 1..Len(s) : CharAt(s, i) \notin WhitespaceSet}
    IN  IF kept = {} THEN "" ELSE SubSeq(s, Min(kept), Max(kept))

\* sub in s
str_contains(s, sub) ==
    \E i \in 1..(Len(s) - Len(sub) + 1) : SubSeq(s, i, i + Len(sub) - 1) = sub
str_startswith(s, prefix) == Len(s) >= Len(prefix) /\ SubSeq(s, 1, Len(prefix)) = prefix

\* The maximal runs of s whose characters are outside the set sep, left to right.
Runs(s, sep) ==
    LET starts == {i \in 1..Len(s) :
                      /\ CharAt(s, i) \notin sep
                      /\ (i = 1 \/ CharAt(s, i - 1) \in sep)}
        ends == {i \in 1..Len(s) :
                      /\ CharAt(s, i) \notin sep
                      /\ (i = Len(s) \/ CharAt(s, i + 1) \in sep)}
    IN  [k \in 1..Cardinality(starts) |->
            SubSeq(s, KthSmallest(starts, k), KthSmallest(ends, k))]

\* s.split(): the runs between whitespace.
str_split(s) == Runs(s, WhitespaceSet)
\* re.findall(r'\b\w+\b', s): the maximal runs of word characters.
re_findall_words(s) == Runs(s, CharSet(s) \ WordCharSet)

\* s.split(sep) for a one-character sep: the pieces between the separators,
\* the empty ones kept.
str_split_on(s, sep) ==
    LET hits == {j \in 1..Len(s) : CharAt(s, j) = sep}
        cut(k) == IF k = 0 THEN 0
                  ELSE IF k > Cardinality(hits) THEN Len(s) + 1
                  ELSE KthSmallest(hits, k)
    IN  [k \in 1..(Cardinality(hits) + 1) |-> SubSeq(s, cut(k - 1) + 1, cut(k) - 1)]

\* sep.join(parts)
str_join(sep, parts) ==
    ConcatRange([i \in 1..Len(parts) |-> IF i = 1 THEN parts[i] ELSE sep \o parts[i]],
                1, Len(parts))

\* The set of the elements of a sequence, and a sequence without repetition
\* that keeps each element at its first place (list(dict.fromkeys(xs))).
Range(xs) == {xs[i] : i \in 1..Len(xs)}
DedupKeepOrder(xs) ==
    LET firsts == {i \in 1..Len(xs) : \A j \in 1..(i - 1) : xs[j] # xs[i]}
    IN  [k \in 1..Cardinality(firsts) |-> xs[KthSmallest(firsts, k)]]
Reverse(xs) == [i \in 1..Len(xs) |-> xs[Len(xs) + 1 - i]]

\* xs.index(x)
IndexOf(xs, x) == Min({i \in 1..Len(xs) : xs[i] = x}) - 1

\* xs[:k], for k of either sign.
SliceTo(xs, k) ==
    IF k >= 0 THEN SubSeq(xs, 1, IF k < Len(xs) THEN k ELSE Len(xs))
    ELSE SubSeq(xs, 1, IF Len(xs) + k > 0 THEN Len(xs) + k ELSE 0)

\* A sort by ascending score that is then reversed: descending by score, the
\* pairs of equal score in the reverse of the order they had.
SortByScoreReversed(ps) ==
    LET place(i) == 1 + Cardinality({j \in 1..Len(ps) : ps[j][2] > ps[i][2]})
                      + Cardinality({j \in (i + 1)..Len(ps) : ps[j][2] = ps[i][2]})
    IN  [k \in 1..Len(ps) |-> ps[CHOOSE i \in 1..Len(ps) : place(i) = k]]

\* list.sort(key=..., reverse=True) on pairs <<item, score>>: descending by
\* score, the pairs of equal score left in the order they had.
SortByScoreDesc(ps) ==
    LET place(i) == 1 + Cardinality({j \in 1..Len(ps) : ps[j][2] > ps[i][2]})
                      + Cardinality({j \in 1..(i - 1) : ps[j][2] = ps[i][2]})
    IN  [k \in 1..Len(ps) |-> ps[CHOOSE i \in 1..Len(ps) : place(i) = k]]

(***************************************************************************)
(* Python values whose type the code does not fix: what yaml.safe_load     *)
(* yields for a header value.  A str, an int, a list of str, a mapping of  *)
(* str to such values, or None.                                            *)
(***************************************************************************)
PyStr(s) == [t |-> "str", v |-> s]
PyInt(n) == [t |-> "int", v |-> n]
PyList(xs) == [t |-> "list", v |-> xs]
PyDict(f) == [t |-> "dict", v |-> f]
YAMLError == [t |-> "YAMLError"]
EmptyDict == PyDict([k \in {} |-> None])

\* bool(v) of such a value.
Truthy(v) ==
    CASE v.t = "None" -> FALSE
      [] v.t = "int" -> v.v # 0
      [] v.t = "dict" -> DOMAIN v.v # {}
      [] OTHER -> Len(v.v) > 0

RECURSIVE IntToStr(_)
IntToStr(n) == IF n < 10 THEN CharAt(DigitChars, n + 1)
               ELSE IntToStr(n \div 10) \o CharAt(DigitChars, (n % 10) + 1)
RECURSIVE StrToInt(_)
StrToInt(s) == IF Len(s) = 0 THEN 0
               ELSE 10 * StrToInt(SubSeq(s, 1, Len(s) - 1))
                    + (CHOOSE d \in 0..9 : CharAt(DigitChars, d + 1) = CharAt(s, Len(s)))
IsDigits(s) == Len(s) > 0 /\ CharSet(s) \subseteq DigitSet

\* str(v), as an f-string formats a value.
PyFormat(v) ==
    CASE v.t = "str" -> v.v
      [] v.t = "int" -> IntToStr(v.v)
      [] v.t = "None" -> "None"
      [] v.t = "list" -> "[" \o str_join(", ", [i \in 1..Len(v.v) |-> "'" \o v.v[i] \o "'"]) \o "]"

(***************************************************************************)
(* yaml.safe_load on the part of YAML the corpus headers use: a block      *)
(* mapping, one "key: value" per line, whose values are plain scalars      *)
(* (a run of digits is an int, an empty value is null, anything else a     *)
(* str) or flow sequences "[a, b]" of plain words.  A text with no such    *)
(* line is one plain scalar, an empty text is null, and a mapping line     *)
(* followed by a line that is none, or a flow sequence left open, is a     *)
(* YAMLError.                                                              *)
(***************************************************************************)
yaml_scalar(s) ==
    IF s = "" THEN None ELSE IF IsDigits(s) THEN PyInt(StrToInt(s)) ELSE PyStr(s)

\* The place of the ':' that ends the key of a mapping line, 0 if there is none.
yaml_key_end(line) ==
    LET at == {i \in 1..Len(line) :
                  /\ CharAt(line, i) = ":"
                  /\ (i = Len(line) \/ CharAt(line, i + 1) = " ")}
    IN  IF at = {} \/ Head(line) \in WhitespaceSet THEN 0
        ELSE CHOOSE i \in at : \A j \in at : i <= j

yaml_flow_items(inner) ==
    LET parts == str_split_on(inner, ",")
    IN  IF str_strip(inner) = "" THEN <<>>
        ELSE [i \in 1..Len(parts) |-> str_strip(parts[i])]

\* A value without the blanks around it.
yaml_node(s) ==
    IF str_startswith(s, "[")
    THEN IF CharAt(s, Len(s)) = "]"
         THEN PyList(yaml_flow_items(SubSeq(s, 2, Len(s) - 1)))
         ELSE YAMLError
    ELSE yaml_scalar(s)

yaml_value(text) == yaml_node(str_strip(text))

\* The mapping front with key: val after it.
yaml_put(front, key, val) ==
    IF front = YAMLError \/ val = YAMLError THEN YAMLError
    ELSE PyDict([x \in (DOMAIN front.v) \cup {key} |-> IF x = key THEN val ELSE front.v[x]])

\* The mapping front with the line whose key ends at k after it.
yaml_pair(front, line, k) ==
    yaml_put(front, SubSeq(line, 1, k - 1), yaml_value(SubSeq(line, k + 1, Len(line))))

RECURSIVE yaml_mapping(_)
yaml_mapping(lines) ==
    IF Len(lines) = 0 THEN EmptyDict
    ELSE yaml_pair(yaml_mapping(SubSeq(lines, 1, Len(lines) - 1)),
                   lines[Len(lines)], yaml_key_end(lines[Len(lines)]))

\* The document made of the lines that are not blank.
yaml_document(lines) ==
    LET keyed == {i \in 1..Len(lines) : yaml_key_end(lines[i]) > 1}
    IN  IF Len(lines) = 0 THEN None
        ELSE IF keyed = 1..Len(lines) THEN yaml_mapping(lines)
        ELSE IF keyed = {}
             THEN yaml_scalar(str_join(" ", [i \in 1..Len(lines) |-> str_strip(lines[i])]))
        ELSE YAMLError

yaml_safe_load(text) ==
    yaml_document(SelectSeq(str_split_on(text, "\n"), LAMBDA l : str_strip(l) # ""))

(***************************************************************************)
(* _parse_frontmatter: the header between two '---' lines and the text     *)
(* after it.  Yields <<frontmatter_data, markdown_content>>.               *)
(***************************************************************************)
\* yaml.safe_load(frontmatter_text) or {}, and {} on yaml.YAMLError (lines 111-114).
frontmatter_data_of(loaded) ==
    IF loaded = YAMLError THEN EmptyDict
    ELSE IF Truthy(loaded) THEN loaded ELSE EmptyDict

\* Lines 108-116, end_index counted from 1 here.
frontmatter_split(lines, end_index) ==
    << frontmatter_data_of(yaml_safe_load(str_join("\n", SubSeq(lines, 2, end_index - 1)))),
       str_join("\n", SubSeq(lines, end_index + 1, Len(lines))) >>

\* Lines 96-116 on the lines of the content.
frontmatter_lines(content, lines) ==
    LET ends == {i \in 2..Len(lines) : str_strip(lines[i]) = "---"}
    IN  IF Len(lines) < 2 \/ ends = {} THEN <<EmptyDict, content>>
        ELSE frontmatter_split(lines, Min(ends))

_parse_frontmatter(content) ==
    IF ~ str_startswith(content, "---") THEN <<EmptyDict, content>>
    ELSE frontmatter_lines(content, str_split_on(content, "\n"))

(***************************************************************************)
(* A source file of the directory: its name, whether open() and read()     *)
(* succeed (it exists, is readable and is valid UTF-8), and its text.      *)
(***************************************************************************)
MdxFile(name, content) == [name |-> name, readable |-> TRUE, content |-> content]
UnreadableFile(name) == [name |-> name, readable |-> FALSE, content |-> ""]

\* Path(name).stem: the name without its last suffix.
path_stem(name) ==
    LET dots == {i \in 1..Len(name) : CharAt(name, i) = "."}
        last == IF dots = {} THEN 0 ELSE CHOOSE i \in dots : \A j \in dots : j <= i
    IN  IF 1 < last /\ last < Len(name) THEN SubSeq(name, 1, last - 1) ELSE name

\* What a for loop, or str.join, goes through: the items of a list, the
\* characters of a str.  Any other value cannot be iterated: TypeError.
Iterable(v) == v.t \in {"list", "str"}
PyIter(v) ==
    CASE v.t = "list" -> v.v
      [] v.t = "str" -> [i \in 1..Len(v.v) |-> CharAt(v.v, i)]

stop_words ==
    { "the", "a", "an", "and", "or", "but", "in", "on", "at", "to",
      "for", "of", "with", "by", "is", "are", "was", "were", "be", "been",
      "being", "have", "has", "had", "do", "does", "did", "will", "would", "could",
      "should", "may", "might", "must", "can", "this", "that", "these", "those", "i",
      "you", "he", "she", "it", "we", "they", "me", "him", "her", "us",
      "them", "my", "your", "his", "her", "its", "our", "their" }

\* The distinct words by descending count, all of them.
most_common_all(words, n) ==
    LET distinct == DedupKeepOrder(words)
        counted == [i \in 1..Len(distinct) |->
                      <<distinct[i], Cardinality({j \in 1..Len(words) : words[j] = distinct[i]})>>]
        sorted == SortByScoreDesc(counted)
    IN  [i \in 1..Len(sorted) |-> sorted[i][1]]

\* word_counts.most_common(n) of a Counter filled from words: the distinct
\* words, by descending count, those of equal count in the order of their
\* first occurrence.
MostCommonN == 20
most_common(words, n) ==
    LET distinct == DedupKeepOrder(words)
        counted == [i \in 1..Len(distinct) |->
                      <<distinct[i], Cardinality({j \in 1..Len(words) : words[j] = distinct[i]})>>]
        sorted == SliceTo(SortByScoreDesc(counted), n)
    IN  [i \in 1..Len(sorted) |-> sorted[i][1]]

\* _extract_keywords(content, metadata), which raises when the tags cannot be
\* joined.
keywords_raise(metadata) == ~ Iterable(metadata.tags)
_extract_keywords(content, metadata) ==
    LET text == PyFormat(metadata.title) \o " " \o PyFormat(metadata.topic) \o " "
                  \o str_join(" ", PyIter(metadata.tags)) \o " " \o content
        words == re_findall_words(str_lower(text))
        filtered_words == SelectSeq(words, LAMBDA word : Len(word) > 2 /\ word \notin stop_words)
    IN  most_common(filtered_words, MostCommonN)

\* frontmatter_data.get(key, default)
dict_get(d, key, default) == IF key \in DOMAIN d THEN d[key] ELSE default

\* _parse_mdx_file(file_path): the entry of a file, or None where the code
\* catches an exception (the file cannot be read, the header is no mapping,
\* the tags cannot be joined).  content_html and filepath, which no
\* operation reads, are left out of the entry.
\* The metadata dict of lines 39-48, of a header that is a dict.
metadata_of(name, stem, fm) ==
    [id |-> stem,
     title |-> dict_get(fm, "title", PyStr(stem)),
     topic |-> dict_get(fm, "topic", PyStr("")),
     tags |-> dict_get(fm, "tags", PyList(<<>>)),
     created |-> dict_get(fm, "created", PyStr("")),
     updated |-> dict_get(fm, "updated", PyStr("")),
     filename |-> name]

\* The dict of lines 57-62, or None where _extract_keywords raises.
entry_of(metadata, content_raw) ==
    IF keywords_raise(metadata) THEN None
    ELSE [id |-> metadata.id, title |-> metadata.title, topic |-> metadata.topic,
          tags |-> metadata.tags, created |-> metadata.created,
          updated |-> metadata.updated, filename |-> metadata.filename,
          content_raw |-> content_raw,
          keywords |-> _extract_keywords(content_raw, metadata)]

\* Lines 38-62 on what _parse_frontmatter returned: None where
\* frontmatter_data has no get().
parsed_entry(file, parsed) ==
    IF parsed[1].t # "dict" THEN None
    ELSE entry_of(metadata_of(file.name, path_stem(file.name), parsed[1].v), parsed[2])

_parse_mdx_file(file) ==
    IF ~ file.readable THEN None
    ELSE parsed_entry(file, _parse_frontmatter(file.content))

(***************************************************************************)
(* _calculate_relevance_score(query, entry).  The code raises where it     *)
(* calls lower() on a title or a topic that the header gave as something   *)
(* other than a str; relevance_raises says when, and the score is defined  *)
(* for the other entries.                                                  *)
(***************************************************************************)
relevance_raises(entry) == entry.title.t # "str" \/ entry.topic.t # "str"

WordSet(s) == Range(re_findall_words(str_lower(s)))

\* A score with no bonus for the phrase.
exact_phrase_none(content_lower, query_lower) == 0

\* if query_lower in entry.get('content_raw', '').lower(): score += 15.0
exact_phrase_bonus(content_lower, query_lower) ==
    IF str_contains(content_lower, query_lower) THEN 15 ELSE 0

_calculate_relevance_score(query, entry) ==
    LET query_lower == str_lower(query)
        query_words == Range(re_findall_words(query_lower))
        title_matches == Cardinality(query_words \cap WordSet(entry.title.v))
        topic_matches == Cardinality(query_words \cap WordSet(entry.topic.v))
        tags == PyIter(entry.tags)
        tag_count(i) == Cardinality(query_words \cap WordSet(tags[i]))
        RECURSIVE tag_sum(_)
        tag_sum(n) == IF n = 0 THEN 0 ELSE tag_sum(n - 1) + tag_count(n)
        tag_matches == tag_sum(Len(tags))
        content_lower == str_lower(entry.content_raw)
        content_matches == Cardinality(query_words \cap Range(re_findall_words(content_lower)))
        keyword_matches ==
            Cardinality({i \in 1..Len(entry.keywords) :
                            \E word \in query_words :
                                str_contains(str_lower(entry.keywords[i]), word)})
        exact_phrase == exact_phrase_bonus(content_lower, query_lower)
        query_phrases == str_split(query_lower)
        phrase_matches ==
            Cardinality({i \in 1..(Len(query_phrases) - 1) :
                            str_contains(content_lower,
                                         query_phrases[i] \o " " \o query_phrases[i + 1])})
    IN  title_matches * 10 + topic_matches * 8 + tag_matches * 6 + content_matches * 2
          + keyword_matches * 4 + exact_phrase + phrase_matches * 8

(***************************************************************************)
(* _semantic_search(query, entries): the relevance score plus the bonus of *)
(* the semantic groups the query names, sorted by descending score.        *)
(***************************************************************************)
semantic_groups ==
    <<
    [name |-> "coffee_quality", keywords |-> <<"quality", "excellent", "premium", "specialty", "artisan", "gourmet", "taste", "flavor", "aroma">>],
    [name |-> "business_operations", keywords |-> <<"operations", "efficiency", "workflow", "process", "management", "optimization", "productivity">>],
    [name |-> "sales_revenue", keywords |-> <<"sales", "revenue", "profit", "pricing", "upselling", "margin", "earnings", "growth", "increase">>],
    [name |-> "customer_service", keywords |-> <<"customer", "service", "experience", "satisfaction", "loyalty", "retention", "support">>],
    [name |-> "equipment_technical", keywords |-> <<"equipment", "machine", "espresso", "grinder", "brewer", "maintenance", "calibration", "technical">>],
    [name |-> "menu_design", keywords |-> <<"menu", "design", "layout", "psychology", "pricing", "presentation", "visual">>],
    [name |-> "training_education", keywords |-> <<"training", "education", "learning", "teaching", "barista", "staff", "skills">>],
    [name |-> "branding_marketing", keywords |-> <<"brand", "branding", "marketing", "white label", "private label", "identity", "promotion">>],
    [name |-> "roasting_processing", keywords |-> <<"roasting", "roast", "processing", "beans", "origins", "farm", "green beans">>],
    [name |-> "storage_freshness", keywords |-> <<"storage", "freshness", "shelf life", "preservation", "timing", "temperature">>]
>>

\* A bonus that counts the terms of every group, named by the query or not.
semantic_bonus_all_groups(query, entry) ==
    LET entry_text == str_lower(PyFormat(entry.title) \o " " \o PyFormat(entry.topic) \o " "
                                  \o str_join(" ", PyIter(entry.tags)) \o " "
                                  \o entry.content_raw)
    IN  2 * Cardinality({gk \in (1..Len(semantic_groups)) \X (1..9) :
                            /\ gk[2] <= Len(semantic_groups[gk[1]].keywords)
                            /\ str_contains(entry_text, semantic_groups[gk[1]].keywords[gk[2]])})

semantic_bonus(query, entry) ==
    LET query_words == Range(re_findall_words(str_lower(query)))
        relevant_groups == {g \in 1..Len(semantic_groups) :
                               \E k \in 1..Len(semantic_groups[g].keywords) :
                                   semantic_groups[g].keywords[k] \in query_words}
        entry_text == str_lower(PyFormat(entry.title) \o " " \o PyFormat(entry.topic) \o " "
                                  \o str_join(" ", PyIter(entry.tags)) \o " "
                                  \o entry.content_raw)
        group_matches(g) == Cardinality({k \in 1..Len(semantic_groups[g].keywords) :
                                            str_contains(entry_text, semantic_groups[g].keywords[k])})
        RECURSIVE bonus(_)
        bonus(g) == IF g = 0 THEN 0
                    ELSE bonus(g - 1) + (IF g \in relevant_groups THEN group_matches(g) * 2 ELSE 0)
    IN  bonus(Len(semantic_groups))

final_score(query, entry) == _calculate_relevance_score(query, entry) + semantic_bonus(query, entry)

(***************************************************************************)
(* _get_priority_mappings(): the dict, as the sequence of its items in the *)
(* order the literal gives them, which is the order a loop over the dict   *)
(* follows.                                                                *)
(***************************************************************************)
_get_priority_mappings ==
    <<
    [key |-> "company", files |-> <<"01-company-introduction.mdx">>],
    [key |-> "introduction", files |-> <<"01-company-introduction.mdx">>],
    [key |-> "about", files |-> <<"01-company-introduction.mdx", "11-about-founders-company.mdx">>],
    [key |-> "founders", files |-> <<"01-company-introduction.mdx", "11-about-founders-company.mdx">>],
    [key |-> "abbotsford", files |-> <<"01-company-introduction.mdx", "11-about-founders-company.mdx">>],
    [key |-> "logan", files |-> <<"01-company-introduction.mdx", "11-about-founders-company.mdx">>],
    [key |-> "karl", files |-> <<"01-company-introduction.mdx", "11-about-founders-company.mdx">>],
    [key |-> "strategy", files |-> <<"02-strategy-one-elevate-coffee-game.mdx", "09-strategy-four-coffee-menu-design.mdx", "10-strategy-five-grow-your-brand.mdx">>],
    [key |-> "elevate", files |-> <<"02-strategy-one-elevate-coffee-game.mdx">>],
    [key |-> "menu design", files |-> <<"09-strategy-four-coffee-menu-design.mdx">>],
    [key |-> "menu", files |-> <<"09-strategy-four-coffee-menu-design.mdx", "17-playbook-tip-simple-menu.mdx">>],
    [key |-> "brand", files |-> <<"10-strategy-five-grow-your-brand.mdx">>],
    [key |-> "white label", files |-> <<"10-strategy-five-grow-your-brand.mdx">>],
    [key |-> "white labeling", files |-> <<"10-strategy-five-grow-your-brand.mdx">>],
    [key |-> "specialty coffee", files |-> <<"04-specialty-coffee-journey.mdx", "01-company-introduction.mdx">>],
    [key |-> "coffee journey", files |-> <<"04-specialty-coffee-journey.mdx">>],
    [key |-> "bean to cup", files |-> <<"04-specialty-coffee-journey.mdx">>],
    [key |-> "origins", files |-> <<"05-origin-beans-flavor-profile.mdx">>],
    [key |-> "flavor", files |-> <<"05-origin-beans-flavor-profile.mdx">>],
    [key |-> "ethiopian", files |-> <<"05-origin-beans-flavor-profile.mdx">>],
    [key |-> "kenyan", files |-> <<"05-origin-beans-flavor-profile.mdx">>],
    [key |-> "storage", files |-> <<"06-ordering-storing-coffee-fresh.mdx">>],
    [key |-> "freshness", files |-> <<"06-ordering-storing-coffee-fresh.mdx">>],
    [key |-> "roaster", files |-> <<"07-pick-perfect-roaster.mdx">>],
    [key |-> "roasting", files |-> <<"07-pick-perfect-roaster.mdx">>],
    [key |-> "case study", files |-> <<"08-case-study-fracpacks.mdx">>],
    [key |-> "fracpacks", files |-> <<"08-case-study-fracpacks.mdx">>],
    [key |-> "packaging", files |-> <<"08-case-study-fracpacks.mdx">>],
    [key |-> "cost savings", files |-> <<"08-case-study-fracpacks.mdx">>],
    [key |-> "efficiency", files |-> <<"25-operational-efficiency-sales.mdx", "13-30-second-fix-profit-win.mdx">>],
    [key |-> "workflow", files |-> <<"25-operational-efficiency-sales.mdx", "13-30-second-fix-profit-win.mdx">>],
    [key |-> "optimization", files |-> <<"25-operational-efficiency-sales.mdx", "13-30-second-fix-profit-win.mdx">>],
    [key |-> "skipper", files |-> <<"14-successful-coffee-program-skipper.mdx">>],
    [key |-> "leadership", files |-> <<"14-successful-coffee-program-skipper.mdx", "21-how-design-your-team.mdx">>],
    [key |-> "calibration", files |-> <<"15-difference-good-great-coffee-calibration.mdx">>],
    [key |-> "quality", files |-> <<"15-difference-good-great-coffee-calibration.mdx">>],
    [key |-> "consistency", files |-> <<"15-difference-good-great-coffee-calibration.mdx">>],
    [key |-> "espresso machine", files |-> <<"16-espresso-machine-heartbeat.mdx">>],
    [key |-> "equipment", files |-> <<"16-espresso-machine-heartbeat.mdx", "12-for-restaurants-groups-chains.mdx">>],
    [key |-> "machine", files |-> <<"16-espresso-machine-heartbeat.mdx">>],
    [key |-> "maintenance", files |-> <<"16-espresso-machine-heartbeat.mdx">>],
    [key |-> "simple menu", files |-> <<"17-playbook-tip-simple-menu.mdx">>],
    [key |-> "profitability", files |-> <<"17-playbook-tip-simple-menu.mdx", "22-sales-improvement-strategies.mdx">>],
    [key |-> "service", files |-> <<"17-playbook-tip-simple-menu.mdx">>],
    [key |-> "playbook", files |-> <<"18-specialty-coffee-playbook-launch.mdx", "01-company-introduction.mdx">>],
    [key |-> "coffee fest", files |-> <<"18-specialty-coffee-playbook-launch.mdx", "19-coffee-fest-nyc-coming-hot.mdx">>],
    [key |-> "nyc", files |-> <<"18-specialty-coffee-playbook-launch.mdx", "19-coffee-fest-nyc-coming-hot.mdx">>],
    [key |-> "launch", files |-> <<"18-specialty-coffee-playbook-launch.mdx">>],
    [key |-> "event", files |-> <<"18-specialty-coffee-playbook-launch.mdx", "19-coffee-fest-nyc-coming-hot.mdx">>],
    [key |-> "partnership", files |-> <<"20-we-dont-push-brand-wrap-around-yours.mdx", "12-for-restaurants-groups-chains.mdx">>],
    [key |-> "philosophy", files |-> <<"20-we-dont-push-brand-wrap-around-yours.mdx">>],
    [key |-> "collaboration", files |-> <<"20-we-dont-push-brand-wrap-around-yours.mdx">>],
    [key |-> "support", files |-> <<"20-we-dont-push-brand-wrap-around-yours.mdx", "11-about-founders-company.mdx">>],
    [key |-> "team", files |-> <<"21-how-design-your-team.mdx", "11-about-founders-company.mdx">>],
    [key |-> "culture", files |-> <<"21-how-design-your-team.mdx">>],
    [key |-> "hiring", files |-> <<"21-how-design-your-team.mdx">>],
    [key |-> "restaurants", files |-> <<"12-for-restaurants-groups-chains.mdx">>],
    [key |-> "chains", files |-> <<"12-for-restaurants-groups-chains.mdx">>],
    [key |-> "groups", files |-> <<"12-for-restaurants-groups-chains.mdx">>],
    [key |-> "enterprise", files |-> <<"12-for-restaurants-groups-chains.mdx">>],
    [key |-> "pricing", files |-> <<"23-pricing-strategies-profit-optimization.mdx", "12-for-restaurants-groups-chains.mdx">>],
    [key |-> "volume", files |-> <<"12-for-restaurants-groups-chains.mdx">>],
    [key |-> "learn", files |-> <<"03-what-you-will-learn.mdx">>],
    [key |-> "learning", files |-> <<"03-what-you-will-learn.mdx">>],
    [key |-> "education", files |-> <<"03-what-you-will-learn.mdx">>],
    [key |-> "chapter", files |-> <<"03-what-you-will-learn.mdx">>],
    [key |-> "sales", files |-> <<"22-sales-improvement-strategies.mdx", "09-strategy-four-coffee-menu-design.mdx">>],
    [key |-> "revenue", files |-> <<"22-sales-improvement-strategies.mdx", "23-pricing-strategies-profit-optimization.mdx">>],
    [key |-> "profit", files |-> <<"22-sales-improvement-strategies.mdx", "23-pricing-strategies-profit-optimization.mdx">>],
    [key |-> "upselling", files |-> <<"22-sales-improvement-strategies.mdx", "23-pricing-strategies-profit-optimization.mdx">>],
    [key |-> "upsell", files |-> <<"22-sales-improvement-strategies.mdx", "23-pricing-strategies-profit-optimization.mdx">>],
    [key |-> "margin", files |-> <<"23-pricing-strategies-profit-optimization.mdx", "22-sales-improvement-strategies.mdx">>],
    [key |-> "anchor pricing", files |-> <<"23-pricing-strategies-profit-optimization.mdx">>],
    [key |-> "menu psychology", files |-> <<"22-sales-improvement-strategies.mdx", "09-strategy-four-coffee-menu-design.mdx">>],
    [key |-> "customer experience", files |-> <<"24-customer-experience-retention.mdx", "22-sales-improvement-strategies.mdx">>],
    [key |-> "retention", files |-> <<"24-customer-experience-retention.mdx">>],
    [key |-> "loyalty", files |-> <<"24-customer-experience-retention.mdx", "10-strategy-five-grow-your-brand.mdx">>],
    [key |-> "customer satisfaction", files |-> <<"24-customer-experience-retention.mdx">>],
    [key |-> "repeat business", files |-> <<"24-customer-experience-retention.mdx", "22-sales-improvement-strategies.mdx">>],
    [key |-> "brand loyalty", files |-> <<"24-customer-experience-retention.mdx", "10-strategy-five-grow-your-brand.mdx">>],
    [key |-> "throughput", files |-> <<"25-operational-efficiency-sales.mdx">>],
    [key |-> "productivity", files |-> <<"25-operational-efficiency-sales.mdx">>],
    [key |-> "cost reduction", files |-> <<"25-operational-efficiency-sales.mdx", "23-pricing-strategies-profit-optimization.mdx">>],
    [key |-> "operational", files |-> <<"25-operational-efficiency-sales.mdx", "13-30-second-fix-profit-win.mdx">>]
>>

RECURSIVE Extend(_)
Extend(lists) == IF Len(lists) = 0 THEN <<>> ELSE Head(lists) \o Extend(Tail(lists))

\* The query as the search reads it, were it not stripped.
query_lower_unstripped(query) == str_lower(query)

\* query_lower = query.lower().strip()
query_lower_of(query) == str_strip(str_lower(query))

\* The files of every key the query contains, each file once, at its last
\* place.
priority_files_keep_last(query_lower) ==
    LET matched == SelectSeq(_get_priority_mappings,
                             LAMBDA item : str_contains(query_lower, item.key))
    IN  Reverse(DedupKeepOrder(Reverse(Extend([i \in 1..Len(matched) |-> matched[i].files]))))

\* The files of every key the query contains, as often as the keys name
\* them.
priority_files_repeated(query_lower) ==
    LET matched == SelectSeq(_get_priority_mappings,
                             LAMBDA item : str_contains(query_lower, item.key))
    IN  Extend([i \in 1..Len(matched) |-> matched[i].files])

\* priority_files of search_knowledge_base: the files of every key the query
\* contains, each file once, at its first place.
priority_files_of(query_lower) ==
    LET matched == SelectSeq(_get_priority_mappings,
                             LAMBDA item : str_contains(query_lower, item.key))
    IN  DedupKeepOrder(Extend([i \in 1..Len(matched) |-> matched[i].files]))

(***************************************************************************)
(* The cache: self._cache, a dict, as the sequence of its items in         *)
(* insertion order, and self._last_cache_update, NoTime for None.  Times   *)
(* are in seconds.                                                         *)
(***************************************************************************)
NoTime == -1
CacheTtl == 300

dict_keys(d) == {d[i].key : i \in 1..Len(d)}
dict_values(d) == [i \in 1..Len(d) |-> d[i].value]
\* d.get(key): the value, or None.
dict_lookup(d, key) ==
    IF key \in dict_keys(d) THEN d[CHOOSE i \in 1..Len(d) : d[i].key = key].value ELSE None
\* d[key] = value: in the place the key has, or at the end.
dict_set(d, key, value) ==
    IF key \in dict_keys(d)
    THEN [i \in 1..Len(d) |-> IF d[i].key = key THEN [key |-> key, value |-> value] ELSE d[i]]
    ELSE Append(d, [key |-> key, value |-> value])

\* An entry stored under its topic.
cache_key_topic(entry) == entry.topic.v

\* self._cache[entry['id']] = entry: the key an entry is stored under.
cache_key(entry) == entry.id

\* _get_mdx_files(): the files of the directory that match *.mdx, in the
\* order the file system lists them.
_get_mdx_files(directory) ==
    SelectSeq(directory, LAMBDA f : Len(f.name) >= 4
                                    /\ SubSeq(f.name, Len(f.name) - 3, Len(f.name)) = ".mdx")

\* (current_time - self._last_cache_update).seconds: the seconds field of a
\* timedelta, which leaves the whole days out.
timedelta_seconds(current_time, last) == (current_time - last) % 86400

\* A cache that is valid for a second less.
cache_is_valid_short(c, last, current_time) ==
    /\ last # NoTime
    /\ timedelta_seconds(current_time, last) < CacheTtl - 1
    /\ Len(c) > 0

cache_is_valid(c, last, current_time) ==
    /\ last # NoTime
    /\ timedelta_seconds(current_time, last) < CacheTtl
    /\ Len(c) > 0

(***************************************************************************)
(* The bounded world the model is checked in: the source files a directory *)
(* may hold, the queries and the arguments a caller passes.                *)
(***************************************************************************)
FileSales ==
    MdxFile("22-sales-improvement-strategies.mdx",
            "---\ntitle: Sales Improvement Strategies\ntopic: Sales\ntags: [sales, profit]\n---\nRaise profit margin with upselling.")
FilePricing ==
    MdxFile("23-pricing-strategies-profit-optimization.mdx",
            "---\ntitle: Pricing Strategies\ntopic: Sales\ntags: [pricing, margin]\n---\nAnchor pricing protects margin.")
\* The pricing file after an edit of its header and body.
FilePricingEdited ==
    MdxFile("23-pricing-strategies-profit-optimization.mdx",
            "---\ntitle: Pricing Strategies\ntopic: Pricing\n---\nMenu psychology lifts sales.")
FileEspresso ==
    MdxFile("16-espresso-machine-heartbeat.mdx",
            "---\ntitle: Espresso Machine Heartbeat\ntopic: Equipment\ntags: [espresso, maintenance]\n---\nRegular maintenance and calibration keep the machine healthy.")
\* No header; named by no priority key.
FileNotes ==
    MdxFile("barista-notes.mdx", "Barista notes: espresso machine maintenance and profit margin.")
\* A header whose title yaml.safe_load reads as an int.
FileInventory ==
    MdxFile("inventory.mdx", "---\ntitle: 2024\n---\nEspresso stock.")

\* Three files with one header, whose bodies hold the same words.  The first
\* holds "espresso machine maintenance" as it is written here, the second
\* holds it with a capital, the third holds the two pairs of its words apart.
PhraseHeader == "---\ntitle: Service Notes\ntopic: Equipment\ntags: [espresso, maintenance]\n---\n"
FilePhraseExact ==
    MdxFile("phrase-exact.mdx", PhraseHeader \o "espresso machine maintenance machine Espresso")
FilePhraseCased ==
    MdxFile("phrase-cased.mdx", PhraseHeader \o "Espresso machine maintenance machine espresso")
FilePhraseSplit ==
    MdxFile("phrase-split.mdx", PhraseHeader \o "machine maintenance Espresso machine espresso")

\* The document of the espresso file under a name no priority key maps, and
\* a document whose title holds every word of "espresso machine maintenance".
FileHeartbeat ==
    MdxFile("heartbeat.mdx",
            "---\ntitle: Espresso Machine Heartbeat\ntopic: Equipment\n---\nSchedule maintenance and calibration.")
FileManual ==
    MdxFile("espresso-manual.mdx",
            "---\ntitle: Espresso Machine Maintenance\ntopic: Equipment\n---\nEspresso machine maintenance and calibration by the manual.")

\* A body of more than twenty distinct words, some of them repeated, with
\* stop words and words of two letters.
FileLong ==
    MdxFile("grinder-care.mdx",
            "---\ntitle: Grinder Care\ntopic: Equipment\ntags: [grinder, sales]\n---\n"
              \o "The barista and the grinder: to be or not to be, ok. Grinder burrs wear; clean burrs daily. "
              \o "alpha bravo charlie delta echo foxtrot golf hotel india juliet kilo lima mike "
              \o "november oscar papa quebec romeo sierra tango")
\* Headers that are not as the format asks: no end marker; text between the
\* markers that yaml.safe_load rejects; text it reads as a str; tags it
\* reads as None.  And a file that cannot be read.
FileNoEnd == MdxFile("draft.mdx", "---\ntitle: Draft\nNo end marker follows.")
FileBadYaml == MdxFile("broken.mdx", "---\ntitle: [Broken\n---\nBody after a broken header.")
FileScalarHeader == MdxFile("scalar.mdx", "---\njust a note\n---\nBody after a scalar header.")
FileTagsNull == MdxFile("untagged.mdx", "---\ntitle: Untagged\ntags:\n---\nBody of the untagged file.")
FileLocked == UnreadableFile("locked.mdx")
\* A header that gives the topic as an int and the tags as a str.
FileLoose == MdxFile("loose.mdx", "---\ntopic: 2024\ntags: sales\n---\nLoose header.")
\* A topic in small letters.
FileBrewing == MdxFile("brewing.mdx", "---\ntopic: brewing\ntags: [Pour over, grinder]\n---\nBrew guide.")

FileUniverse == {FileSales, FilePricing, FilePricingEdited, FileEspresso, FileNotes,
                 FileInventory, FilePhraseExact, FilePhraseCased, FilePhraseSplit,
                 FileHeartbeat, FileManual, FileLong, FileNoEnd, FileBadYaml,
                 FileScalarHeader, FileTagsNull, FileLocked, FileLoose, FileBrewing}
\* The entry _parse_mdx_file makes of every file, computed once.
ParsedFile == [file \in FileUniverse |-> _parse_mdx_file(file)]

EntryUniverse == {ParsedFile[f] : f \in FileUniverse} \ {None}

SearchQueries == {"", " ", "profit margin", "Margin", "espresso machine maintenance",
                  "barista notes"}
\* Queries with a sign between two words, with two spaces between two words,
\* and a query that holds no priority key and no term of a semantic group,
\* whose words several documents hold alike.
RankQueries == {"espresso-machine maintenance", "profit  margin", "daily notes"}
QueryUniverse == SearchQueries \cup RankQueries

\* The score of every query for every entry, and the priority files of every
\* query, computed once.
FinalScore == [query \in QueryUniverse, entry \in {e \in EntryUniverse : ~ relevance_raises(e)}
                  |-> final_score(query, entry)]
PriorityFiles == [query \in QueryUniverse |-> priority_files_of(query_lower_of(query))]
\* The relevance score alone, computed once.
RelevanceScore == [query \in QueryUniverse, entry \in {e \in EntryUniverse : ~ relevance_raises(e)}
                      |-> _calculate_relevance_score(query, entry)]

\* A store that a file without an entry empties.
cache_store_or_reset(c, entry) == IF entry = None THEN <<>> ELSE dict_set(c, entry.id, entry)

\* if entry: self._cache[entry['id']] = entry
cache_store(c, entry) == IF entry = None THEN c ELSE dict_set(c, cache_key(entry), entry)

\* The refresh loop of _get_entries_cached over the listed files.
RECURSIVE refresh_from(_)
refresh_from(mdx_files) ==
    IF Len(mdx_files) = 0 THEN <<>>
    ELSE cache_store(refresh_from(SubSeq(mdx_files, 1, Len(mdx_files) - 1)),
                     ParsedFile[mdx_files[Len(mdx_files)]])

\* _get_entries_cached(): the cache and the time stamp it leaves, the list it
\* returns, and whether it refreshed.
\* A refresh that returns the list it had before it read the directory.
cached_empty_on_refresh(c, last, refreshed) ==
    [cache |-> c, last_cache_update |-> last,
     entries |-> IF refreshed THEN <<>> ELSE dict_values(c), refreshed |-> refreshed]

\* return list(self._cache.values()), with what the call leaves behind.
cached(c, last, refreshed) ==
    [cache |-> c, last_cache_update |-> last, entries |-> dict_values(c),
     refreshed |-> refreshed]

\* A refresh that stores the entries into the map it finds.
RECURSIVE refresh_into(_, _)
refresh_into(c, mdx_files) ==
    IF Len(mdx_files) = 0 THEN c
    ELSE cache_store(refresh_into(c, SubSeq(mdx_files, 1, Len(mdx_files) - 1)),
                     ParsedFile[mdx_files[Len(mdx_files)]])
_get_entries_cached_kept(c, last, current_time, directory) ==
    IF cache_is_valid(c, last, current_time)
    THEN cached(c, last, FALSE)
    ELSE cached(refresh_into(c, _get_mdx_files(directory)), current_time, TRUE)

_get_entries_cached(c, last, current_time, directory) ==
    IF cache_is_valid(c, last, current_time)
    THEN cached(c, last, FALSE)
    ELSE cached(refresh_from(_get_mdx_files(directory)), current_time, TRUE)

(***************************************************************************)
(* _semantic_search(query, entries): the pairs <<entry, score>> by         *)
(* descending score.  It raises when the score of one of the entries does. *)
(***************************************************************************)
semantic_search_raises(entries) == \E i \in 1..Len(entries) : relevance_raises(entries[i])
\* The pairs in the order of the entries.
semantic_search_unsorted(query, entries) ==
    [i \in 1..Len(entries) |-> <<entries[i], FinalScore[query, entries[i]]>>]

_semantic_search(query, entries) ==
    SortByScoreDesc([i \in 1..Len(entries) |-> <<entries[i], FinalScore[query, entries[i]]>>])

\* A filter that keeps every pair.
filter_none(semantic_results, min_score) == semantic_results

\* [(entry, score) for entry, score in semantic_results if score >= min_score]
filter_min_score(semantic_results, min_score) ==
    SelectSeq(semantic_results, LAMBDA pair : pair[2] >= min_score)

\* The list returned whole.
truncate_none(pairs, max_results) == pairs

\* The [:max_results] of the two return statements (lines 281 and 289).
truncate(pairs, max_results) == SliceTo(pairs, max_results)

\* An argument that must be an int (a PyInt) for the slice or the
\* subtraction that uses it not to raise TypeError.
IsInt(v) == v.t = "int"

Returns(docs) == [raised |-> FALSE, docs |-> docs]
Raises == [raised |-> TRUE, docs |-> <<>>]
Entries(pairs) == [i \in 1..Len(pairs) |-> pairs[i][1]]

\* A priority branch that leaves the priority entries in the order of the
\* corpus.
search_priority_unsorted(entries, query, priority_files, max_results, min_score) ==
    LET in_priority(entry) == entry.filename \in Range(priority_files)
        matched == SelectSeq(entries, in_priority)
        priority_entries == [i \in 1..Len(matched) |-> <<matched[i], 100>>]
        remaining_entries == SelectSeq(entries, LAMBDA entry : ~ in_priority(entry))
        semantic_results == _semantic_search(query, remaining_entries)
    IN  IF Len(remaining_entries) = 0
        THEN IF IsInt(max_results)
             THEN Returns(Entries(truncate(priority_entries, max_results.v)))
             ELSE Raises
        ELSE IF \/ semantic_search_raises(remaining_entries)
                \/ ~ IsInt(min_score)
                \/ ~ IsInt(max_results)
        THEN Raises
        ELSE LET filtered == filter_min_score(semantic_results, min_score.v)
                 extended == priority_entries
                               \o SliceTo(filtered, max_results.v - Len(priority_entries))
             IN  Returns(Entries(truncate(extended, max_results.v)))

\* A priority branch that returns its priority entries and nothing else.
search_priority_head_only(entries, query, priority_files, max_results, min_score) ==
    LET in_priority(entry) == entry.filename \in Range(priority_files)
        matched == SelectSeq(entries, in_priority)
        priority_entries ==
            SortByScoreDesc([i \in 1..Len(matched) |->
                                <<matched[i], 100 - IndexOf(priority_files, matched[i].filename)>>])
    IN  IF IsInt(max_results)
        THEN Returns(Entries(truncate(priority_entries, max_results.v)))
        ELSE Raises

\* The priority branch of search_knowledge_base (lines 259-281).
search_priority(entries, query, priority_files, max_results, min_score) ==
    LET in_priority(entry) == entry.filename \in Range(priority_files)
        matched == SelectSeq(entries, in_priority)
        priority_score(entry) ==
            IF in_priority(entry) THEN 100 - IndexOf(priority_files, entry.filename) ELSE 50
        priority_entries ==
            SortByScoreDesc([i \in 1..Len(matched) |-> <<matched[i], priority_score(matched[i])>>])
        remaining_entries == SelectSeq(entries, LAMBDA entry : ~ in_priority(entry))
        semantic_results == _semantic_search(query, remaining_entries)
    IN  IF Len(remaining_entries) = 0
        THEN IF IsInt(max_results)
             THEN Returns(Entries(truncate(priority_entries, max_results.v)))
             ELSE Raises
        ELSE IF \/ semantic_search_raises(remaining_entries)
                \/ ~ IsInt(min_score)
                \/ ~ IsInt(max_results)
        THEN Raises
        ELSE LET filtered == filter_min_score(semantic_results, min_score.v)
                 extended == priority_entries
                               \o SliceTo(filtered, max_results.v - Len(priority_entries))
             IN  Returns(Entries(truncate(extended, max_results.v)))

\* The branch without priority files (lines 283-289).
search_semantic(entries, query, max_results, min_score) ==
    LET semantic_results == _semantic_search(query, entries)
    IN  IF semantic_search_raises(entries) \/ ~ IsInt(min_score) \/ ~ IsInt(max_results)
        THEN Raises
        ELSE Returns(Entries(truncate(filter_min_score(semantic_results, min_score.v),
                                      max_results.v)))

\* The body of the try of search_knowledge_base, after _get_entries_cached.
search_try(entries, query, max_results, min_score) ==
    IF Len(entries) = 0 THEN Returns(<<>>)
    ELSE IF query_lower_of(query) = "" THEN Returns(<<>>)
         ELSE IF Len(PriorityFiles[query]) > 0
              THEN search_priority(entries, query, PriorityFiles[query],
                                   max_results, min_score)
              ELSE search_semantic(entries, query, max_results, min_score)

\* An attempt whose exception goes on to the caller.
search_reraise(attempt) ==
    [outcome |-> IF attempt.raised THEN "raise" ELSE "return", failed |-> attempt.raised,
     value |-> IF attempt.raised THEN <<>> ELSE attempt.docs]

\* except Exception: print the error, return [].  What the caller gets from
\* an attempt: how the call ended, its value, and whether a step had raised.
search_except(attempt) ==
    [outcome |-> "return", failed |-> attempt.raised,
     value |-> IF attempt.raised THEN <<>> ELSE attempt.docs]

search_knowledge_base(entries, query, max_results, min_score) ==
    search_except(search_try(entries, query, max_results, min_score))

(***************************************************************************)
(* get_similar_entries and get_entry_by_id.                                *)
(***************************************************************************)
\* a == b of two header values.
PyEq(a, b) == a.t = b.t /\ (a.t = "None" \/ a.v = b.v)

\* A score that counts the keywords of the entry the target lacks.
similarity_score_one_sided(target_entry, entry) ==
    LET keyword_overlap == Cardinality(Range(entry.keywords) \ Range(target_entry.keywords))
        topic_similarity == IF PyEq(entry.topic, target_entry.topic) THEN 1 ELSE 0
    IN  keyword_overlap * 7 + topic_similarity * 3

\* similarity_score of entry for the target, in units of 0.1:
\* keyword_overlap * 0.7 + topic_similarity * 0.3.
similarity_score(target_entry, entry) ==
    LET keyword_overlap == Cardinality(Range(target_entry.keywords) \cap Range(entry.keywords))
        topic_similarity == IF PyEq(entry.topic, target_entry.topic) THEN 1 ELSE 0
    IN  keyword_overlap * 7 + topic_similarity * 3

\* A lookup that falls back on the first entry.
find_target_or_first(entries, entry_id) ==
    LET hits == {i \in 1..Len(entries) : entries[i].id = entry_id}
    IN  IF hits = {} THEN (IF Len(entries) = 0 THEN None ELSE entries[1])
        ELSE entries[Min(hits)]

\* next((e for e in entries if e['id'] == entry_id), None)
find_target(entries, entry_id) ==
    LET hits == {i \in 1..Len(entries) : entries[i].id = entry_id}
    IN  IF hits = {} THEN None ELSE entries[Min(hits)]

\* Every entry, the target too.
all_entries(entries, entry_id) == entries

\* for entry in entries: if entry['id'] != entry_id
other_entries(entries, entry_id) == SelectSeq(entries, LAMBDA entry : entry.id # entry_id)

similar_try(entries, entry_id, max_results) ==
    LET target_entry == find_target(entries, entry_id)
    IN  IF target_entry = None THEN Returns(<<>>)
        ELSE LET others == other_entries(entries, entry_id)
                 scored == [i \in 1..Len(others) |->
                              <<others[i], similarity_score(target_entry, others[i])>>]
                 similar_entries == SortByScoreDesc(SelectSeq(scored, LAMBDA pair : pair[2] > 0))
             IN  IF IsInt(max_results)
                 THEN Returns(Entries(SliceTo(similar_entries, max_results.v)))
                 ELSE Raises

get_similar_entries(entries, entry_id, max_results) ==
    LET attempt == similar_try(entries, entry_id, max_results)
    IN  [outcome |-> "return", failed |-> attempt.raised,
         value |-> IF attempt.raised THEN <<>> ELSE attempt.docs]

\* get_entry_by_id, on the cache _get_entries_cached has left.
get_entry_by_id(c, entry_id) ==
    [outcome |-> "return", failed |-> FALSE, value |-> dict_lookup(c, entry_id)]

(***************************************************************************)
(* get_topics and get_tags.  sorted() orders strs by the code points of    *)
(* their characters and ints by value, and raises TypeError on a list      *)
(* that mixes them; set.add raises TypeError on a list.                    *)
(***************************************************************************)
\* The characters of the corpus in the order of their code points.
CodePoints ==
    "\n !#$%&'()*+,-./0123456789:;<=>?@ABCDEFGHIJKLMNOPQRSTUVWXYZ[]^_abcdefghijklmnopqrstuvwxyz{|}~"
ord(c) == CHOOSE i \in 1..Len(CodePoints) : CharAt(CodePoints, i) = c

\* a < b of two strs.
str_less(a, b) ==
    LET differ == {k \in 1..Min({Len(a), Len(b)}) : CharAt(a, k) # CharAt(b, k)}
    IN  IF differ = {} THEN Len(a) < Len(b)
        ELSE ord(CharAt(a, Min(differ))) < ord(CharAt(b, Min(differ)))

\* The topics and the tags of the bounded world, and a < b for every two of
\* them, computed once.
Labels ==
    UNION {(IF e.topic.t = "str" THEN {e.topic.v} ELSE {}) \cup Range(PyIter(e.tags)) :
              e \in EntryUniverse}
LabelLess == [a \in Labels, b \in Labels |-> str_less(a, b)]

\* The strs from the greatest down.
sorted_strs_descending(strs) ==
    [k \in 1..Cardinality(strs) |->
        CHOOSE x \in strs : Cardinality({y \in strs : LabelLess[x, y]}) = k - 1]

\* sorted(list(strs)) of a set of strs.
sorted_strs(strs) ==
    [k \in 1..Cardinality(strs) |->
        CHOOSE x \in strs : Cardinality({y \in strs : LabelLess[y, x]}) = k - 1]

\* sorted(list(ints)) of a set of ints.
sorted_ints(ints) ==
    [k \in 1..Cardinality(ints) |->
        CHOOSE x \in ints : Cardinality({y \in ints : y < x}) = k - 1]

\* sorted(list(topics)) of a set of header values, all strs or all ints.
sorted_topics(topics, values) ==
    IF \A topic \in topics : topic.t = "str"
    THEN [k \in 1..Cardinality(values) |-> PyStr(sorted_strs(values)[k])]
    ELSE [k \in 1..Cardinality(values) |-> PyInt(sorted_ints(values)[k])]

\* Lines 464-470: set.add raises on a list, sorted() on a list that mixes
\* strs and ints.
topics_try(entries) ==
    LET named == {i \in 1..Len(entries) : Truthy(entries[i].topic)}
        topics == {entries[i].topic : i \in named}
    IN  IF \E topic \in topics : topic.t \in {"list", "dict"} THEN Raises
        ELSE IF \E a \in topics, b \in topics : a.t # b.t THEN Raises
        ELSE Returns(sorted_topics(topics, {topic.v : topic \in topics}))

get_topics(entries) ==
    LET attempt == topics_try(entries)
    IN  [outcome |-> "return", failed |-> attempt.raised,
         value |-> IF attempt.raised THEN <<>> ELSE attempt.docs]

\* Lines 478-483: tags.update(entry_tags) adds the items of a list, the
\* characters of a str.
tags_try(entries) ==
    Returns(sorted_strs(UNION {Range(PyIter(entries[i].tags)) : i \in 1..Len(entries)}))

get_tags(entries) ==
    LET attempt == tags_try(entries)
    IN  [outcome |-> "return", failed |-> attempt.raised,
         value |-> IF attempt.raised THEN <<>> ELSE attempt.docs]

(***************************************************************************)
(* common/business_logic.py: the store MOCK_DATA of customers and          *)
(* appointments and the coroutines that read and change it.                *)
(*                                                                         *)
(* datetime: a date and time is kept with its fields and with its seconds  *)
(* since 2000-01-01T00:00:00; datetime.fromisoformat reads                 *)
(* 'YYYY-MM-DD', alone or followed by one separator character and 'HH',    *)
(* 'HH:MM' or 'HH:MM:SS', and raises ValueError on any other text and on   *)
(* fields out of range.                                                    *)
(***************************************************************************)
ValueError == [t |-> "ValueError"]

IsLeap(y) == (y % 4 = 0 /\ y % 100 # 0) \/ y % 400 = 0
DaysInMonth(y, m) ==
    IF m = 2 THEN (IF IsLeap(y) THEN 29 ELSE 28)
    ELSE IF m \in {4, 6, 9, 11} THEN 30 ELSE 31
\* The days from 1970-01-01 to a date of the calendar.
DaysFromCivil(y, m, d) ==
    LET yy == IF m <= 2 THEN y - 1 ELSE y
        era == yy \div 400
        yoe == yy - era * 400
        doy == (153 * (IF m > 2 THEN m - 3 ELSE m + 9) + 2) \div 5 + d - 1
        doe == yoe * 365 + yoe \div 4 - yoe \div 100 + doy
    IN  era * 146097 + doe - 719468
DaysTo2000 == DaysFromCivil(2000, 1, 1)

Datetime(y, mo, d, h, mi, sec) ==
    [t |-> "datetime", year |-> y, month |-> mo, day |-> d, hour |-> h, minute |-> mi,
     second |-> sec,
     at |-> (DaysFromCivil(y, mo, d) - DaysTo2000) * 86400 + h * 3600 + mi * 60 + sec]
\* datetime.weekday(): Monday is 0.  1970-01-01 was a Thursday.
weekday(dt) == (DaysFromCivil(dt.year, dt.month, dt.day) + 3) % 7

fromisoformat(date) ==
    LET n == Len(date)
        num(lo, hi) == IF IsDigits(SubSeq(date, lo, hi)) THEN StrToInt(SubSeq(date, lo, hi)) ELSE -1
        shaped == /\ n \in {10, 13, 16, 19}
                  /\ CharAt(date, 5) = "-" /\ CharAt(date, 8) = "-"
                  /\ n >= 16 => CharAt(date, 14) = ":"
                  /\ n >= 19 => CharAt(date, 17) = ":"
        y == num(1, 4)
        mo == num(6, 7)
        d == num(9, 10)
        h == IF n >= 13 THEN num(12, 13) ELSE 0
        mi == IF n >= 16 THEN num(15, 16) ELSE 0
        sec == IF n >= 19 THEN num(18, 19) ELSE 0
    IN  IF ~ shaped THEN ValueError
        ELSE IF \/ y < 1 \/ mo < 1 \/ mo > 12 \/ d < 1
                \/ h < 0 \/ h > 23 \/ mi < 0 \/ mi > 59 \/ sec < 0 \/ sec > 59
             THEN ValueError
             ELSE IF d > DaysInMonth(y, mo) THEN ValueError
                  ELSE Datetime(y, mo, d, h, mi, sec)

\* f"{n:02d}" and f"{n:04d}"
Pad(n, width) ==
    LET digits == IntToStr(n)
    IN  IF Len(digits) >= width THEN digits
        ELSE SubSeq("0000", 1, width - Len(digits)) \o digits

\* The date of the calendar that is a number of days after 1970-01-01.
CivilFromDays(days) ==
    LET z == days + 719468
        era == z \div 146097
        doe == z - era * 146097
        yoe == (doe - doe \div 1460 + doe \div 36524 - doe \div 146096) \div 365
        doy == doe - (365 * yoe + yoe \div 4 - yoe \div 100)
        mp == (5 * doy + 2) \div 153
        d == doy - (153 * mp + 2) \div 5 + 1
        m == IF mp < 10 THEN mp + 3 ELSE mp - 9
        y == yoe + era * 400
    IN  [year |-> IF m <= 2 THEN y + 1 ELSE y, month |-> m, day |-> d]
\* The datetime that is a number of seconds after 2000-01-01T00:00:00.
DatetimeAt(at) ==
    LET civil == CivilFromDays(at \div 86400 + DaysTo2000)
        rest == at % 86400
    IN  Datetime(civil.year, civil.month, civil.day, rest \div 3600, (rest % 3600) \div 60,
                 rest % 60)
\* datetime.isoformat() of a datetime of whole seconds.
isoformat(dt) ==
    Pad(dt.year, 4) \o "-" \o Pad(dt.month, 2) \o "-" \o Pad(dt.day, 2) \o "T"
      \o Pad(dt.hour, 2) \o ":" \o Pad(dt.minute, 2) \o ":" \o Pad(dt.second, 2)

\* datetime.now(): the clock of the model counts seconds from the start of
\* the run, which is 2026-11-02T08:00:00, a Monday.
StartOfRun == Datetime(2026, 11, 2, 8, 0, 0).at
datetime_now(clock) == DatetimeAt(StartOfRun + clock)

(***************************************************************************)
(* MOCK_DATA: the lists of customers, appointments and orders and the      *)
(* sample data made of them.  A customer and an appointment are dicts of   *)
(* strs; what a coroutine returns is a dict, an error being a dict with    *)
(* the key 'error'.  The arguments of a call are Python values.            *)
(***************************************************************************)
Error(message) == [error |-> message]
IsError(result) == "error" \in DOMAIN result

\* next((c for c in MOCK_DATA["customers"] if c[key] == value), None)
first_customer(customers, key, value) ==
    LET hits == {i \in 1..Len(customers) : customers[i][key] = value}
    IN  IF hits = {} THEN None ELSE customers[Min(hits)]

\* get_customer after its delay (lines 261-276).
get_customer(customers, phone, email, customer_id) ==
    LET looked_up(key, value) ==
            LET customer == first_customer(customers, key, value)
            IN  IF customer = None THEN Error("Customer not found") ELSE customer
    IN  IF Truthy(phone) THEN looked_up("phone", phone.v)
        ELSE IF Truthy(email) THEN looked_up("email", email.v)
        ELSE IF Truthy(customer_id) THEN looked_up("id", customer_id.v)
        ELSE Error("No search criteria provided")

\* An id made of the number of the appointments.
appointment_id_by_count(appointments) == "APT" \o Pad(Len(appointments), 4)

generate_unique_appointment_id(appointments) ==
    LET existing_ids == {appointments[i].id : i \in 1..Len(appointments)}
        counter == Min({n \in 0..Len(appointments) : ("APT" \o Pad(n, 4)) \notin existing_ids})
    IN  "APT" \o Pad(counter, 4)

generate_unique_customer_id(customers) ==
    LET existing_ids == {customers[i].id : i \in 1..Len(customers)}
        counter == Min({n \in 0..Len(customers) : ("CUST" \o Pad(n, 4)) \notin existing_ids})
    IN  "CUST" \o Pad(counter, 4)

\* regenerate_sample_data(): the sample data of the first three customers,
\* with two appointments and two orders each at most.
regenerate_sample_data(data) ==
    LET sample_customers == SliceTo(data.customers, 3)
        of_customer(rows, customer) ==
            SliceTo(SelectSeq(rows, LAMBDA row : row.customer_id = customer.id), 2)
        customer_data(customer) ==
            [Customer |-> customer.name, ID |-> customer.id, Phone |-> customer.phone,
             Email |-> customer.email,
             Appointments |->
                 LET mine == of_customer(data.appointments, customer)
                 IN  [k \in 1..Len(mine) |->
                         [Service |-> mine[k].service, Date |-> SliceTo(mine[k].date, 10),
                          Status |-> mine[k].status]],
             Orders |->
                 LET mine == of_customer(data.orders, customer)
                 IN  [k \in 1..Len(mine) |->
                         [ID |-> mine[k].id, Total |-> "$" \o mine[k].total,
                          Status |-> mine[k].status, Date |-> SliceTo(mine[k].date, 10),
                          Items |-> mine[k].items]]]
    IN  [data EXCEPT !.sample_data =
            [k \in 1..Len(sample_customers) |-> customer_data(sample_customers[k])]]

\* The validation of the date of an appointment (lines 318-335 and 449-466):
\* the error it returns, or None.
validate_date(date, current_time) ==
    LET appointment_datetime == fromisoformat(date)
    IN  IF appointment_datetime = ValueError
        THEN Error("Invalid date format. Please use ISO format (YYYY-MM-DDTHH:MM:SS)")
        ELSE IF appointment_datetime.at <= current_time.at
        THEN Error("Cannot schedule appointments in the past")
        ELSE IF appointment_datetime.hour < 9 \/ appointment_datetime.hour >= 17
        THEN Error("Appointments can only be scheduled between 9 AM and 5 PM")
        ELSE IF weekday(appointment_datetime) >= 5
        THEN Error("Appointments can only be scheduled on weekdays")
        ELSE None

\* validate_data_integrity(): whether the store is free of the issues it
\* looks for.
HasDuplicates(xs) == \E i, j \in 1..Len(xs) : i < j /\ xs[i] = xs[j]
IdsOf(rows) == [i \in 1..Len(rows) |-> rows[i].id]
Orphaned(rows, customers) ==
    SelectSeq(rows, LAMBDA row : row.customer_id \notin Range(IdsOf(customers)))
validate_data_integrity(data) ==
    /\ ~ HasDuplicates(IdsOf(data.customers))
    /\ ~ HasDuplicates(IdsOf(data.appointments))
    /\ ~ HasDuplicates(IdsOf(data.orders))
    /\ Orphaned(data.appointments, data.customers) = <<>>
    /\ Orphaned(data.orders, data.customers) = <<>>

\* What a stretch of a coroutine between two awaits leaves: the store, and
\* either the value the coroutine returns or the sign that it goes on.
Returned(data, value) == [data |-> data, done |-> TRUE, value |-> value]
GoesOn(data) == [data |-> data, done |-> FALSE]

\* schedule_appointment from the return of get_customer's delay to its end
\* (line 313, with lines 261-276 of get_customer, to line 368).
schedule_appointment(data, customer_id, date, service, current_time) ==
    LET customer == get_customer(data.customers, None, None, customer_id)
        invalid == validate_date(date.v, current_time)
        taken == \E i \in 1..Len(data.appointments) : data.appointments[i].date = date.v
        appointment == [id |-> generate_unique_appointment_id(data.appointments),
                        customer_id |-> customer_id.v,
                        customer_name |-> customer.name,
                        date |-> date.v,
                        service |-> service.v,
                        status |-> "Scheduled"]
    IN  IF IsError(customer) THEN Returned(data, customer)
        ELSE IF invalid # None THEN Returned(data, invalid)
        ELSE IF taken
        THEN Returned(data, Error("This time slot is already booked. Please choose another time."))
        ELSE Returned(regenerate_sample_data(
                          [data EXCEPT !.appointments = Append(@, appointment)]),
                      appointment)

\* The place of the appointment of an id in the list, 0 if there is none.
find_appointment(appointments, appointment_id) ==
    LET hits == {i \in 1..Len(appointments) : appointments[i].id = appointment_id}
    IN  IF hits = {} THEN 0 ELSE Min(hits)

\* reschedule_appointment from the return of its delay to the await of
\* get_customer (lines 436-477): the error it returns, or None if it goes on.
reschedule_checks(data, appointment_id, new_date, current_time) ==
    LET at == find_appointment(data.appointments, appointment_id.v)
        appointment == data.appointments[at]
        invalid == validate_date(new_date.v, current_time)
        taken == \E i \in 1..Len(data.appointments) :
                     /\ data.appointments[i].date = new_date.v
                     /\ data.appointments[i].id # appointment_id.v
    IN  IF at = 0 THEN Error("Appointment not found")
        ELSE IF appointment.status \in {"Cancelled", "Completed"}
        THEN Error("Cannot reschedule appointment with status: " \o appointment.status)
        ELSE IF invalid # None THEN invalid
        ELSE IF taken
        THEN Error("This time slot is already booked. Please choose another time.")
        ELSE None

\* reschedule_appointment from the return of get_customer's delay to its
\* end (line 477, with lines 261-276, to line 503).  at is the place of the
\* appointment that line 437 found.
reschedule_update(data, at, new_date, new_service) ==
    LET appointment == data.appointments[at]
        customer == get_customer(data.customers, None, None, PyStr(appointment.customer_id))
        updated == [appointment EXCEPT !.date = new_date.v, !.service = new_service.v,
                                       !.status = "Scheduled"]
    IN  IF IsError(customer) THEN Returned(data, Error("Customer not found"))
        ELSE Returned(regenerate_sample_data([data EXCEPT !.appointments[at] = updated]),
                      [message |-> "Appointment rescheduled successfully",
                       appointment |-> updated,
                       old_date |-> appointment.date,
                       new_date |-> new_date.v])

\* update_appointment_status from the return of its delay to its end (lines
\* 514-541).
update_appointment_status(data, appointment_id, new_status) ==
    LET valid_statuses == <<"Scheduled", "Completed", "Cancelled">>
        at == find_appointment(data.appointments, appointment_id.v)
        appointment == data.appointments[at]
        updated == [appointment EXCEPT !.status = new_status.v]
    IN  IF new_status.v \notin Range(valid_statuses)
        THEN Returned(data, Error("Invalid status. Must be one of: "
                                     \o str_join(", ", valid_statuses)))
        ELSE IF at = 0 THEN Returned(data, Error("Appointment not found"))
        ELSE Returned(regenerate_sample_data([data EXCEPT !.appointments[at] = updated]),
                      [message |-> "Appointment status updated from " \o appointment.status
                                      \o " to " \o new_status.v,
                       appointment |-> updated,
                       old_status |-> appointment.status,
                       new_status |-> new_status.v])

\* create_new_customer from the return of its delay to the await of
\* get_customer (lines 584-589): the error it returns, or None.
create_checks(name, phone, email) ==
    IF ~ (Truthy(name) /\ Truthy(phone) /\ Truthy(email))
    THEN Error("Name, phone, and email are required")
    ELSE None

\* create_new_customer from the return of get_customer's delay to its end
\* (line 589, with lines 261-276, to line 618).
create_new_customer(data, name, phone, email, current_time) ==
    LET existing_customer == get_customer(data.customers, phone, email, None)
        new_id == generate_unique_customer_id(data.customers)
        new_customer == [id |-> new_id,
                         name |-> str_strip(name.v),
                         phone |-> str_strip(phone.v),
                         email |-> str_strip(email.v),
                         joined_date |-> isoformat(current_time)]
    IN  IF ~ IsError(existing_customer)
        THEN Returned(data, Error("Customer already exists with this phone or email"))
        ELSE Returned(regenerate_sample_data(
                          [data EXCEPT !.customers = Append(@, new_customer)]),
                      [success |-> TRUE,
                       customer |-> new_customer,
                       message |-> "Customer " \o name.v \o " created successfully with ID "
                                     \o new_id])

(***************************************************************************)
(* The state: the directory (its files in the order the file system lists  *)
(* them), the clock, the cache and its time stamp; the last call a caller  *)
(* made with what it got back; and, for a search that repeats the call     *)
(* before it with no change of the directory in between, what that call    *)
(* returned.  For a host that runs calls in several threads: how far the   *)
(* thread that refreshes the cache has come in _get_entries_cached, how    *)
(* far a second thread has come in get_entry_by_id, and what that thread   *)
(* read.                                                                   *)
(***************************************************************************)
VARIABLES dir, now, cache, last_cache_update, call, prev, touched, ticks, fs_changes,
          refresh, reader, observed
\* The store of the business logic as it is and as it was loaded, the
\* coroutines that run on the event loop, and what the last of them to end
\* returned.
VARIABLES MOCK_DATA, loaded_data, tasks, returned
vars == <<dir, now, cache, last_cache_update, call, prev, touched, ticks, fs_changes,
          refresh, reader, observed, MOCK_DATA, loaded_data, tasks, returned>>
threads == <<refresh, reader, observed>>
business == <<MOCK_DATA, loaded_data, tasks, returned>>
knowledge == <<dir, now, cache, last_cache_update, call, prev, touched, ticks, fs_changes,
               refresh, reader, observed>>

MaxTicks == 2
MaxFsChanges == 1
MaxResultsArg == 3
MaxCorpus == 3

\* The calls of the business logic that a run makes at most.
MaxCalls == 2

NoCall == [op |-> "none"]
\* A store with nothing in it; no coroutine was started; none has ended.
EmptyData == [customers |-> <<>>, appointments |-> <<>>, orders |-> <<>>, sample_data |-> <<>>]
NewTask == [pc |-> "new"]
DoneTask == [pc |-> "done"]
NoTasks == [t \in 1..MaxCalls |-> NewTask]
NoReturn == [op |-> "none"]
NoPrev == [valid |-> FALSE]
\* No refresh has begun; no thread is inside get_entry_by_id; nothing read.
NoRefresh == [pc |-> "idle", current_time |-> NoTime, mdx_files |-> <<>>, done |-> 0,
              previous |-> <<>>]
NoReader == [pc |-> "idle"]
NotObserved == [valid |-> FALSE]

\* What every call records: the time of the call, the cache and the time
\* stamp it found, the time since the cache was filled, whether
\* _get_entries_cached refreshed, and whether the list it returned is the one
\* the files of the directory make.
CallContext(got) ==
    [time |-> now,
     cache_before |-> cache,
     stamp_before |-> last_cache_update,
     refreshed |-> got.refreshed,
     was_empty |-> Len(cache) = 0,
     elapsed |-> IF last_cache_update = NoTime THEN NoTime ELSE now - last_cache_update,
     current |-> got.entries = dict_values(refresh_from(_get_mdx_files(dir)))]

\* The state a call leaves: the cache and the time stamp as
\* _get_entries_cached left them, and the record of the call.
Served(op, args, got, res) ==
    /\ cache' = got.cache
    /\ last_cache_update' = got.last_cache_update
    /\ call' = [op |-> op, args |-> args, outcome |-> res.outcome,
                failed |-> res.failed, value |-> res.value, ctx |-> CallContext(got)]
    /\ touched' = FALSE
    /\ UNCHANGED <<business, dir, now, ticks, fs_changes, threads>>

SearchOn(args, got) ==
    Served("search", args, got,
           search_knowledge_base(got.entries, args.query, args.max_results, args.min_score))

Search(query, max_results, min_score) ==
    /\ SearchOn([query |-> query, max_results |-> max_results, min_score |-> min_score],
                _get_entries_cached(cache, last_cache_update, now, dir))
    /\ prev' = IF /\ call.op = "search"
                  /\ call.args = [query |-> query, max_results |-> max_results,
                                  min_score |-> min_score]
                  /\ ~ touched
               THEN [valid |-> TRUE, outcome |-> call.outcome, value |-> call.value,
                     cache |-> cache]
               ELSE NoPrev

GetSimilarEntriesOn(args, got) ==
    Served("similar", args, got,
           get_similar_entries(got.entries, args.entry_id, args.max_results))

GetSimilarEntries(entry_id, max_results) ==
    /\ GetSimilarEntriesOn([entry_id |-> entry_id, max_results |-> max_results],
                           _get_entries_cached(cache, last_cache_update, now, dir))
    /\ prev' = NoPrev

GetEntryByIdOn(args, got) ==
    Served("get", args, got, get_entry_by_id(got.cache, args.entry_id))

GetEntryById(entry_id) ==
    /\ GetEntryByIdOn([entry_id |-> entry_id],
                      _get_entries_cached(cache, last_cache_update, now, dir))
    /\ prev' = NoPrev

NoArgs == [none |-> TRUE]

\* A call of get_topics (op "topics") or of get_tags (op "tags").
Listing(op, got) ==
    /\ Served(op, NoArgs, got,
              IF op = "topics" THEN get_topics(got.entries) ELSE get_tags(got.entries))
    /\ prev' = NoPrev

GetTopics == Listing("topics", _get_entries_cached(cache, last_cache_update, now, dir))

GetTags == Listing("tags", _get_entries_cached(cache, last_cache_update, now, dir))

\* Time passes.
TickSteps == {300, 86400}
Tick(seconds) ==
    /\ ticks < MaxTicks
    /\ ticks' = ticks + 1
    /\ now' = now + seconds
    /\ UNCHANGED <<business, dir, cache, last_cache_update, call, prev, touched, fs_changes, threads>>

\* The directory changes under the knowledge base: a file is written (in the
\* place the directory lists it if it exists, in any place if it is new) or
\* removed.
WriteFile(file, place) ==
    LET same == {i \in 1..Len(dir) : dir[i].name = file.name}
    IN  /\ fs_changes < MaxFsChanges
        /\ file \notin Range(dir)
        /\ place \in 1..(Len(dir) + 1)
        /\ IF same # {}
           THEN /\ place = Min(same)
                /\ dir' = [dir EXCEPT ![place] = file]
           ELSE dir' = SubSeq(dir, 1, place - 1) \o <<file>> \o SubSeq(dir, place, Len(dir))
        /\ fs_changes' = fs_changes + 1
        /\ touched' = TRUE
        /\ UNCHANGED <<business, now, cache, last_cache_update, call, prev, ticks, threads>>

RemoveFile(place) ==
    /\ fs_changes < MaxFsChanges
    /\ place \in 1..Len(dir)
    /\ dir' = SubSeq(dir, 1, place - 1) \o SubSeq(dir, place + 1, Len(dir))
    /\ fs_changes' = fs_changes + 1
    /\ touched' = TRUE
    /\ UNCHANGED <<business, now, cache, last_cache_update, call, prev, ticks, threads>>

(***************************************************************************)
(* _get_entries_cached and get_entry_by_id statement by statement, for a   *)
(* host that calls the knowledge base from two threads.  One thread runs   *)
(* the refresh of lines 120-138; the other is inside get_entry_by_id,      *)
(* between the return of its own _get_entries_cached (line 455), which     *)
(* found the cache valid, and its read of self._cache (line 456).  The     *)
(* interpreter switches threads between statements.                        *)
(***************************************************************************)
\* A refresh that fills the map it finds.
kept_cache(c) == c

\* self._cache = {}
cleared_cache(c) == <<>>

\* Lines 120-129: the cache is not valid; the directory is listed.
RefreshBegin ==
    /\ refresh.pc = "idle"
    /\ ~ cache_is_valid(cache, last_cache_update, now)
    /\ refresh' = [pc |-> "clear", current_time |-> now, mdx_files |-> _get_mdx_files(dir),
                   done |-> 0, previous |-> cache]
    /\ UNCHANGED <<business, dir, now, cache, last_cache_update, call, prev, touched, ticks, fs_changes,
                   reader, observed>>

\* Line 130.
RefreshClear ==
    /\ refresh.pc = "clear"
    /\ cache' = cleared_cache(cache)
    /\ refresh' = [refresh EXCEPT !.pc = "loop"]
    /\ UNCHANGED <<business, dir, now, last_cache_update, call, prev, touched, ticks, fs_changes,
                   reader, observed>>

\* Lines 132-135, for one file.
RefreshFile ==
    /\ refresh.pc = "loop"
    /\ refresh.done < Len(refresh.mdx_files)
    /\ cache' = cache_store(cache, ParsedFile[refresh.mdx_files[refresh.done + 1]])
    /\ refresh' = [refresh EXCEPT !.done = refresh.done + 1]
    /\ UNCHANGED <<business, dir, now, last_cache_update, call, prev, touched, ticks, fs_changes,
                   reader, observed>>

\* Lines 137-138, after the last file.
RefreshEnd ==
    /\ refresh.pc = "loop"
    /\ refresh.done = Len(refresh.mdx_files)
    /\ last_cache_update' = refresh.current_time
    /\ refresh' = [refresh EXCEPT !.pc = "idle"]
    /\ UNCHANGED <<business, dir, now, cache, call, prev, touched, ticks, fs_changes, reader, observed>>

\* Line 455 in the second thread: its _get_entries_cached finds the cache
\* valid and returns.
ReaderEnter(entry_id) ==
    /\ reader.pc = "idle"
    /\ refresh.pc = "idle"
    /\ cache_is_valid(cache, last_cache_update, now)
    /\ reader' = [pc |-> "line456", entry_id |-> entry_id]
    /\ UNCHANGED <<business, dir, now, cache, last_cache_update, call, prev, touched, ticks, fs_changes,
                   refresh, observed>>

\* Line 456 in the second thread: self._cache.get(entry_id), with the map it
\* reads and how far the refresh has come.
ReaderGet ==
    /\ reader.pc = "line456"
    /\ observed' = [valid |-> TRUE, entry_id |-> reader.entry_id,
                    value |-> dict_lookup(cache, reader.entry_id),
                    map |-> cache, refresh |-> refresh]
    /\ reader' = NoReader
    /\ UNCHANGED <<business, dir, now, cache, last_cache_update, call, prev, touched, ticks, fs_changes,
                   refresh>>

(***************************************************************************)
(* Spec: the life of one knowledge base over a directory that changes and  *)
(* a clock that advances.                                                  *)
(***************************************************************************)
LifecycleFiles == {FileSales, FilePricing, FilePricingEdited, FileNotes}
LifecycleQueries == {"profit margin", "barista notes"}
EntryIds == {"22-sales-improvement-strategies", "barista-notes", "no-such-entry"}

InitCommon ==
    /\ now = 0
    /\ cache = <<>>
    /\ last_cache_update = NoTime
    /\ call = NoCall
    /\ prev = NoPrev
    /\ touched = FALSE
    /\ ticks = 0
    /\ fs_changes = 0
    /\ refresh = NoRefresh
    /\ reader = NoReader
    /\ observed = NotObserved
    /\ MOCK_DATA = EmptyData
    /\ loaded_data = EmptyData
    /\ tasks = NoTasks
    /\ returned = NoReturn

Init ==
    /\ dir = <<FileSales, FilePricing>>
    /\ InitCommon

Next ==
    \/ \E query \in LifecycleQueries : Search(query, PyInt(2), PyInt(1))
    \/ \E entry_id \in EntryIds : GetSimilarEntries(entry_id, PyInt(5))
    \/ \E entry_id \in EntryIds : GetEntryById(entry_id)
    \/ \E seconds \in TickSteps : Tick(seconds)
    \/ \E file \in LifecycleFiles, place \in 1..(MaxCorpus + 1) : WriteFile(file, place)
    \/ \E place \in 1..MaxCorpus : RemoveFile(place)

Spec == Init /\ [][Next]_vars

(***************************************************************************)
(* SpecSearch: the operations on every small corpus, for every query and   *)
(* every argument of the bounded world, at a fixed time.                   *)
(***************************************************************************)
MasterCorpus == <<FileSales, FilePricing, FileEspresso, FileNotes, FileInventory>>
SubCorpus(picked) == [k \in 1..Cardinality(picked) |-> MasterCorpus[KthSmallest(picked, k)]]
\* The directories of at most MaxCorpus files, listed in either order.
Corpora ==
    LET picks == {P \in SUBSET (1..Len(MasterCorpus)) : Cardinality(P) <= MaxCorpus}
    IN  {SubCorpus(P) : P \in picks} \cup {Reverse(SubCorpus(P)) : P \in picks}

MaxResultsArgs == {PyInt(n) : n \in 0..MaxResultsArg}
MinScoreArgs == {PyInt(1), PyInt(30)}
\* Arguments of a type the code does not expect.
BadSearchArgs ==
    { [query |-> "barista notes", max_results |-> PyStr("3"), min_score |-> PyInt(1)],
      [query |-> "profit margin", max_results |-> PyInt(2), min_score |-> None],
      [query |-> " ", max_results |-> PyStr("3"), min_score |-> None] }
SearchArgs ==
    [query : SearchQueries, max_results : MaxResultsArgs, min_score : MinScoreArgs]
      \cup BadSearchArgs
SimilarIds == {"22-sales-improvement-strategies", "barista-notes", "inventory", "no-such-entry"}

InitSearch ==
    /\ dir \in Corpora
    /\ InitCommon

NextSearch ==
    \/ \E a \in SearchArgs : Search(a.query, a.max_results, a.min_score)
    \/ \E entry_id \in SimilarIds, max_results \in {PyInt(1), PyInt(MaxCorpus + 1), PyStr("3")} :
          GetSimilarEntries(entry_id, max_results)
    \/ \E entry_id \in SimilarIds : GetEntryById(entry_id)

SpecSearch == InitSearch /\ [][NextSearch]_vars

(***************************************************************************)
(* SpecFresh: calls just before and at the end of the life of the cache,   *)
(* over a directory in which files are written, edited and removed, one of *)
(* them a file that does not parse.                                        *)
(***************************************************************************)
FreshFiles == {FilePricingEdited, FileNotes, FileScalarHeader}

NextFresh ==
    \/ Search("profit margin", PyInt(2), PyInt(1))
    \/ \E entry_id \in {"23-pricing-strategies-profit-optimization", "scalar"} :
          GetEntryById(entry_id)
    \/ GetSimilarEntries("22-sales-improvement-strategies", PyInt(5))
    \/ \E seconds \in {CacheTtl - 1, CacheTtl} : Tick(seconds)
    \/ \E file \in FreshFiles, place \in 1..(MaxCorpus + 1) : WriteFile(file, place)
    \/ \E place \in 1..MaxCorpus : RemoveFile(place)

SpecFresh == Init /\ [][NextFresh]_vars

(***************************************************************************)
(* SpecThreads: two threads of a host, the clock and the directory, which  *)
(* changes between refreshes.                                              *)
(***************************************************************************)
ThreadFiles == {FilePricingEdited, FileNotes}
ThreadIds == {"23-pricing-strategies-profit-optimization", "barista-notes"}

InitThreads ==
    /\ dir = <<FileSales, FilePricing>>
    /\ InitCommon

NextThreads ==
    \/ RefreshBegin
    \/ RefreshClear
    \/ RefreshFile
    \/ RefreshEnd
    \/ \E entry_id \in ThreadIds : ReaderEnter(entry_id)
    \/ ReaderGet
    \/ \E seconds \in TickSteps : Tick(seconds)
    \/ \E file \in ThreadFiles, place \in 1..(MaxCorpus + 1) :
          refresh.pc = "idle" /\ WriteFile(file, place)
    \/ \E place \in 1..MaxCorpus : refresh.pc = "idle" /\ RemoveFile(place)

SpecThreads == InitThreads /\ [][NextThreads]_vars

(***************************************************************************)
(* SpecScore: searches over the small corpora of documents that differ in  *)
(* how they hold the words of the query.                                   *)
(***************************************************************************)
ScoreCorpus == <<FileEspresso, FileHeartbeat, FileManual, FilePhraseExact, FilePhraseCased,
                 FilePhraseSplit>>
SubCorpusOf(master, picked) == [k \in 1..Cardinality(picked) |-> master[KthSmallest(picked, k)]]
\* The directories of at most MaxCorpus files of master, listed in either
\* order.
CorporaOf(master) ==
    LET picks == {P \in SUBSET (1..Len(master)) : Cardinality(P) <= MaxCorpus}
    IN  {SubCorpusOf(master, P) : P \in picks} \cup {Reverse(SubCorpusOf(master, P)) : P \in picks}

ScoreQueries == {"espresso machine maintenance", "barista notes"}

InitScore ==
    /\ dir \in CorporaOf(ScoreCorpus)
    /\ InitCommon

NextScore ==
    \E query \in ScoreQueries, max_results \in MaxResultsArgs, min_score \in MinScoreArgs :
        Search(query, max_results, min_score)

SpecScore == InitScore /\ [][NextScore]_vars

(***************************************************************************)
(* SpecLoad: the operations that list what was loaded, over the small      *)
(* directories of files that load, load with defaults or fail to load,     *)
(* while the clock advances.                                               *)
(***************************************************************************)
LoadCorpus == <<FileSales, FileScalarHeader, FilePricing, FileLong, FileTagsNull, FileNoEnd,
                FileBadYaml, FileLocked, FileLoose, FileBrewing>>
LoadIds == {"grinder-care", "draft", "scalar", "no-such-entry"}

InitLoad ==
    /\ dir \in CorporaOf(LoadCorpus)
    /\ InitCommon

NextLoad ==
    \/ \E entry_id \in LoadIds : GetEntryById(entry_id)
    \/ GetTopics
    \/ GetTags
    \/ \E seconds \in {CacheTtl} : Tick(seconds)

SpecLoad == InitLoad /\ [][NextLoad]_vars

(***************************************************************************)
(* SpecRank: searches whose query holds priority keys, or none, or words   *)
(* joined by a sign or by two spaces, over the small corpora of documents  *)
(* the priority table names and of documents it does not name.             *)
(***************************************************************************)
RankCorpus == <<FileSales, FilePricing, FileNotes, FilePhraseExact, FilePhraseCased, FileLong>>
\* max_results and min_score of a search: one document, as many as the
\* priority table names for a query here, and the defaults of the signature.
RankLimits == { [max_results |-> PyInt(1), min_score |-> PyInt(1)],
                [max_results |-> PyInt(2), min_score |-> PyInt(1)],
                [max_results |-> PyInt(10), min_score |-> PyInt(1)],
                [max_results |-> PyInt(10), min_score |-> PyInt(30)] }

InitRank ==
    /\ dir \in CorporaOf(RankCorpus)
    /\ InitCommon

NextRank ==
    \E query \in RankQueries \cup {"barista notes", "espresso machine maintenance"},
       limits \in RankLimits :
        Search(query, limits.max_results, limits.min_score)

SpecRank == InitRank /\ [][NextRank]_vars

(***************************************************************************)
(* The properties of the specification, stated on the record of the last   *)
(* call and on the cache it left.                                          *)
(***************************************************************************)
\* The documents the last call worked on: what _get_entries_cached returned.
Documents == dict_values(cache)

\* The priority keys the query of a search contains, by their place in the
\* table.
MatchedKeys ==
    [query \in QueryUniverse |->
        {k \in 1..Len(_get_priority_mappings) :
            str_contains(str_strip(str_lower(query)), _get_priority_mappings[k].key)}]

\* The files the matched keys of a query name.
Prioritised(query) ==
    UNION {Range(_get_priority_mappings[k].files) : k \in MatchedKeys[query]}

SearchOk == call.op = "search" /\ ~ call.failed

\* C1: a search called with a count n as max_results (0, a count below the
\* number of matched priority documents and a count above the size of the
\* corpus included) returns at most n documents, for every query and corpus.
C1_AtMostMaxResults ==
    (call.op = "search" /\ IsInt(call.args.max_results)) =>
        Len(call.value) <= call.args.max_results.v

\* A search with max_results 1 over a corpus that holds two of the priority
\* documents of its query, which returned one document.
C1_Witness ==
    /\ call.op = "search"
    /\ call.args.max_results = PyInt(1)
    /\ Cardinality({i \in 1..Len(Documents) :
                        Documents[i].filename \in Prioritised(call.args.query)}) >= 2
    /\ Len(call.value) = 1

\* C2, as the specification states it: for every priority key the query
\* contains, the returned documents of that key's list come before every
\* returned document that only the semantic search contributed, and among
\* themselves in the order of that key's list.
C2_KeyListOrder ==
    SearchOk =>
        \A k \in MatchedKeys[call.args.query] :
            \A i, j \in 1..Len(call.value) :
                LET files == _get_priority_mappings[k].files
                    fi == call.value[i].filename
                    fj == call.value[j].filename
                IN  /\ (fi \in Range(files) /\ fj \notin Prioritised(call.args.query)) => i < j
                    /\ (/\ fi \in Range(files)
                        /\ fj \in Range(files)
                        /\ IndexOf(files, fi) < IndexOf(files, fj)) => i < j

\* The first mention of a prioritised file by the query: the first matched
\* key, in table order, whose list names it, and its place in that list.
FirstKey(query, file) ==
    Min({k \in MatchedKeys[query] : file \in Range(_get_priority_mappings[k].files)})
MentionedBefore(query, f, g) ==
    \/ FirstKey(query, f) < FirstKey(query, g)
    \/ /\ FirstKey(query, f) = FirstKey(query, g)
       /\ IndexOf(_get_priority_mappings[FirstKey(query, f)].files, f)
            < IndexOf(_get_priority_mappings[FirstKey(query, f)].files, g)

\* C2, amended: the returned documents that a matched key names come before
\* every returned document that only the semantic search contributed, and
\* among themselves in the order of their first mention, going through the
\* matched keys in table order and through each key's list in list order
\* (the order of the key's list when the query contains one key only).
C2_FirstMentionOrder ==
    SearchOk =>
        \A i, j \in 1..Len(call.value) :
            LET fi == call.value[i].filename
                fj == call.value[j].filename
                named == Prioritised(call.args.query)
            IN  /\ (fi \in named /\ fj \notin named) => i < j
                /\ (fi \in named /\ fj \in named /\ MentionedBefore(call.args.query, fi, fj))
                      => i < j

\* A search whose query contains two keys with lists in opposite orders
\* ("profit" and "margin"), which returned both files of the lists and a
\* document of the semantic search after them.
C2_Witness ==
    /\ SearchOk
    /\ call.args.query = "profit margin"
    /\ Len(call.value) = 3
    /\ call.value[1].filename = "22-sales-improvement-strategies.mdx"
    /\ call.value[2].filename = "23-pricing-strategies-profit-optimization.mdx"
    /\ call.value[3].filename \notin Prioritised(call.args.query)

\* C3: every returned document that the priority path did not contribute
\* has a semantic score (relevance score plus group bonus) of min_score at
\* least; and min_score keeps no priority document out: the priority
\* documents of the corpus are all returned when max_results leaves room.
PriorityDocuments ==
    {i \in 1..Len(Documents) : Documents[i].filename \in Prioritised(call.args.query)}
C3_MinScore ==
    (SearchOk /\ IsInt(call.args.min_score) /\ IsInt(call.args.max_results)) =>
        /\ \A i \in 1..Len(call.value) :
              call.value[i].filename \notin Prioritised(call.args.query)
                => FinalScore[call.args.query, call.value[i]] >= call.args.min_score.v
        /\ (Cardinality(PriorityDocuments) <= call.args.max_results.v)
              => \A d \in PriorityDocuments : Documents[d] \in Range(call.value)

\* A search with min_score 30 that returned a priority document scoring
\* less, and left out, with room to spare, a document of the semantic search
\* scoring less.
C3_Witness ==
    /\ SearchOk
    /\ call.args.min_score = PyInt(30)
    /\ IsInt(call.args.max_results)
    /\ Len(call.value) < call.args.max_results.v
    /\ \E i \in 1..Len(call.value) :
          /\ call.value[i].filename \in Prioritised(call.args.query)
          /\ FinalScore[call.args.query, call.value[i]] < 30
    /\ \E d \in 1..Len(Documents) :
          /\ Documents[d].filename \notin Prioritised(call.args.query)
          /\ Documents[d] \notin Range(call.value)
          /\ FinalScore[call.args.query, Documents[d]] < 30

\* C6: a search whose query is empty or all whitespace returns the empty
\* list, and no step of it raises, whatever the corpus, max_results and
\* min_score are.
Blank(query) == CharSet(query) \subseteq WhitespaceSet
C6_BlankQuery ==
    (call.op = "search" /\ Blank(call.args.query)) =>
        /\ call.outcome = "return"
        /\ ~ call.failed
        /\ call.value = <<>>

\* A search for a query of whitespace, with arguments that no later step
\* could use, over a corpus that is not empty.
C6_Witness ==
    /\ call.op = "search"
    /\ call.args.query = " "
    /\ call.args.max_results = PyStr("3")
    /\ Len(Documents) > 0
    /\ call.value = <<>>

\* C7: a search returns to its caller whatever happens inside it, and
\* returns the empty list when one of its steps raised.
C7_NoExceptionCrosses ==
    call.op = "search" =>
        /\ call.outcome = "return"
        /\ call.failed => call.value = <<>>

\* A search one step of which raised (the score of a document whose title
\* is no str), which returned the empty list.
C7_Witness ==
    /\ call.op = "search"
    /\ call.failed
    /\ IsInt(call.args.max_results)
    /\ IsInt(call.args.min_score)
    /\ call.outcome = "return"
    /\ call.value = <<>>

\* C4, as the specification states it: a call that finds the cache empty,
\* or filled 300 seconds ago or longer (a day or longer included), reads
\* the directory anew and parses every file before it answers, so that it
\* answers from the files as they are.
C4_StaleCacheRefreshed ==
    (call.op # "none" /\ (call.ctx.was_empty \/ call.ctx.elapsed >= CacheTtl)) =>
        /\ call.ctx.refreshed
        /\ call.ctx.current

C8_UniqueIds ==
    /\ \A i, j \in 1..Len(cache) : cache[i].value.id = cache[j].value.id => i = j
    /\ \A i \in 1..Len(cache) : cache[i].key = cache[i].value.id

\* A cache of two documents or more, left by a refresh that replaced an
\* earlier cache after the directory had changed.
C8_Witness ==
    /\ call.op # "none"
    /\ call.ctx.refreshed
    /\ ~ call.ctx.was_empty
    /\ fs_changes > 0
    /\ Len(cache) >= 2

\* C9: for an id that no document of the corpus has, get_similar_entries
\* returns the empty list and get_entry_by_id returns None; neither raises,
\* and neither leaves an entry for that id in the cache.
DocumentIds == {Documents[i].id : i \in 1..Len(Documents)}
C9_UnknownId ==
    (call.op \in {"similar", "get"} /\ call.args.entry_id \notin DocumentIds) =>
        /\ call.outcome = "return"
        /\ ~ call.failed
        /\ call.op = "similar" => call.value = <<>>
        /\ call.op = "get" => call.value = None
        /\ call.args.entry_id \notin dict_keys(cache)

\* get_similar_entries called for an id that none of the two or more
\* documents of the corpus has.
C9_Witness ==
    /\ call.op = "similar"
    /\ call.args.entry_id = "no-such-entry"
    /\ IsInt(call.args.max_results)
    /\ Len(Documents) >= 2
    /\ call.value = <<>>

\* C10: the similarity score is symmetric: for any two documents A and B of
\* the corpus, the score of B for the target A is the score of A for the
\* target B; and get_similar_entries with a max_results that cuts nothing
\* returns B for A exactly when it returns A for B.
SimilarTo(entry_id) == get_similar_entries(Documents, entry_id, PyInt(Len(Documents))).value
C10_SimilaritySymmetric ==
    /\ \A a, b \in 1..Len(Documents) :
          a # b => similarity_score(Documents[a], Documents[b])
                     = similarity_score(Documents[b], Documents[a])
    /\ (/\ call.op = "similar"
        /\ IsInt(call.args.max_results)
        /\ call.args.max_results.v >= Len(Documents)
        /\ call.args.entry_id \in DocumentIds)
         => \A b \in 1..Len(Documents) :
               Documents[b] \in Range(call.value)
                 <=> find_target(Documents, call.args.entry_id) \in Range(SimilarTo(Documents[b].id))

\* get_similar_entries with a max_results above the size of the corpus,
\* which returned one document of the corpus and left another out.
C10_Witness ==
    /\ call.op = "similar"
    /\ call.args.max_results = PyInt(MaxCorpus + 1)
    /\ Len(call.value) >= 1
    /\ \E b \in 1..Len(Documents) :
          /\ Documents[b].id # call.args.entry_id
          /\ Documents[b] \notin Range(call.value)

(***************************************************************************)
(* C11.  The bonus for the phrase.                                         *)
(***************************************************************************)
\* The words of a body as they are written and as the score reads them, and,
\* of a query, whether the body holds it and which pairs of its adjacent
\* words the body holds; computed once.
BodyWords ==
    [e \in EntryUniverse |->
        [written |-> Range(re_findall_words(e.content_raw)), read |-> WordSet(e.content_raw)]]
QueryPairs(query) ==
    LET query_phrases == str_split(str_lower(query))
    IN  {query_phrases[i] \o " " \o query_phrases[i + 1] : i \in 1..(Len(query_phrases) - 1)}
BodyHolds ==
    [query \in QueryUniverse, e \in EntryUniverse |->
        [written |-> str_contains(e.content_raw, str_lower(query)),
         read |-> str_contains(str_lower(e.content_raw), str_lower(query)),
         pairs |-> {p \in QueryPairs(query) : str_contains(str_lower(e.content_raw), p)}]]
Scorable == {e \in Range(Documents) : ~ relevance_raises(e)}
SameHeaderAndKeywords(a, b) ==
    /\ a.title = b.title /\ a.topic = b.topic /\ a.tags = b.tags
    /\ a.keywords = b.keywords

\* C11 as the claim states it: of two documents of the corpus a search
\* scored that agree on title, topic, tags, keywords, the set of the words of
\* the body and the pairs of adjacent query words the body holds, the one
\* whose body holds the lowercased query as it is written scores at least
\* 15.0 more than the one whose body does not.
C11_VerbatimPhraseBonus ==
    call.op = "search" =>
        \A a \in Scorable, b \in Scorable :
            ( /\ SameHeaderAndKeywords(a, b)
              /\ BodyWords[a].written = BodyWords[b].written
              /\ BodyHolds[call.args.query, a].pairs = BodyHolds[call.args.query, b].pairs
              /\ BodyHolds[call.args.query, a].written
              /\ ~ BodyHolds[call.args.query, b].written )
            => RelevanceScore[call.args.query, a] >= RelevanceScore[call.args.query, b] + 15

\* C11, amended: of two documents of the corpus a search scored that agree on
\* title, topic, tags, keywords, the set of the lowercased words of the body
\* and the pairs of adjacent query words the lowercased body holds, the one
\* whose lowercased body holds the lowercased query scores at least 15.0 more
\* than the one whose lowercased body does not.
C11_PhraseBonus ==
    call.op = "search" =>
        \A a \in Scorable, b \in Scorable :
            ( /\ SameHeaderAndKeywords(a, b)
              /\ BodyWords[a].read = BodyWords[b].read
              /\ BodyHolds[call.args.query, a].pairs = BodyHolds[call.args.query, b].pairs
              /\ BodyHolds[call.args.query, a].read
              /\ ~ BodyHolds[call.args.query, b].read )
            => RelevanceScore[call.args.query, a] >= RelevanceScore[call.args.query, b] + 15

\* A search has scored two such documents: both hold both pairs of the words
\* of the query, one of them holds the whole query.
C11_Witness ==
    /\ call.op = "search" /\ ~ call.failed
    /\ \E a \in Scorable, b \in Scorable :
          /\ SameHeaderAndKeywords(a, b)
          /\ BodyWords[a].read = BodyWords[b].read
          /\ BodyHolds[call.args.query, a].pairs = BodyHolds[call.args.query, b].pairs
          /\ Cardinality(BodyHolds[call.args.query, a].pairs) = 2
          /\ BodyHolds[call.args.query, a].read
          /\ ~ BodyHolds[call.args.query, b].read
          /\ \E i, j \in 1..Len(call.value) : i < j /\ call.value[i] = a /\ call.value[j] = b

(***************************************************************************)
(* C12.  The keywords of a document.                                       *)
(***************************************************************************)
\* The tokens of title+topic+tags+body of every document, computed once.
TextTokens ==
    [e \in EntryUniverse |->
        re_findall_words(str_lower(PyFormat(e.title) \o " " \o PyFormat(e.topic) \o " "
                                     \o str_join(" ", PyIter(e.tags)) \o " " \o e.content_raw))]
Frequency(tokens, token) == Cardinality({i \in 1..Len(tokens) : tokens[i] = token})
FirstOccurrence(tokens, token) == Min({i \in 1..Len(tokens) : tokens[i] = token})

\* What C12 says of a list of keywords, for the tokens of the text.
KeywordsOf(tokens, keywords) ==
    LET frequency == [i \in 1..Len(keywords) |-> Frequency(tokens, keywords[i])]
        first == [i \in 1..Len(keywords) |->
                    IF frequency[i] > 0 THEN FirstOccurrence(tokens, keywords[i]) ELSE 0]
    IN  /\ Len(keywords) <= 20
        /\ \A i \in 1..Len(keywords) :
              /\ keywords[i] \notin stop_words
              /\ Len(keywords[i]) > 2
              /\ frequency[i] > 0
        /\ \A i, j \in 1..Len(keywords) :
              i < j =>
                /\ keywords[i] # keywords[j]
                /\ frequency[i] >= frequency[j]
                /\ frequency[i] = frequency[j] => first[i] < first[j]
\* Whether it holds of every entry, computed once.
KeywordsAsClaimed == [e \in EntryUniverse |-> KeywordsOf(TextTokens[e], e.keywords)]

\* C12: the keywords of every loaded document hold no stop word and no token
\* of length 2 or less, are at most 20 and distinct, are tokens of
\* title+topic+tags+body in descending order of their frequency there, and
\* those of equal frequency are in the order of their first occurrence.
C12_Keywords == \A d \in 1..Len(Documents) : KeywordsAsClaimed[Documents[d]]

\* A loaded document whose text holds more than 20 distinct tokens that
\* could be keywords, stop words, tokens of two letters, tokens of equal and
\* of different frequency, was read back by its id.
C12_Witness ==
    /\ call.op = "get" /\ call.value # None
    /\ LET e == call.value
           tokens == Range(TextTokens[e])
       IN  /\ e \in Range(Documents)
           /\ Len(e.keywords) = 20
           /\ Cardinality({t \in tokens : Len(t) > 2 /\ t \notin stop_words}) > 20
           /\ tokens \cap stop_words # {}
           /\ \E t \in tokens : Len(t) <= 2 /\ t \notin stop_words
           /\ \E i \in 1..19 :
                 Frequency(TextTokens[e], e.keywords[i]) > Frequency(TextTokens[e], e.keywords[i + 1])
           /\ \E i \in 1..19 :
                 Frequency(TextTokens[e], e.keywords[i]) = Frequency(TextTokens[e], e.keywords[i + 1])

(***************************************************************************)
(* C13.  The scenario of the espresso machine.                             *)
(***************************************************************************)
ScenarioQuery == "espresso machine maintenance"
ScenarioFile == "16-espresso-machine-heartbeat.mdx"
\* The documents the scenario describes.
ScenarioDocuments ==
    {e \in EntryUniverse :
        /\ e.title = PyStr("Espresso Machine Heartbeat")
        /\ e.topic = PyStr("Equipment")
        /\ str_contains(e.content_raw, "maintenance and calibration")}
\* A search for the scenario's query that asks for one document or more,
\* with the default min_score.
ScenarioSearch ==
    /\ SearchOk
    /\ call.args.query = ScenarioQuery
    /\ IsInt(call.args.max_results) /\ call.args.max_results.v >= 1
    /\ call.args.min_score = PyInt(1)

Outranks(query, d, e) ==
    \/ FinalScore[query, d] > FinalScore[query, e]
    \/ /\ FinalScore[query, d] = FinalScore[query, e]
       /\ IndexOf(Documents, d) < IndexOf(Documents, e)

HeaderLoaded(lines, end_index) == yaml_safe_load(str_join("\n", SubSeq(lines, 2, end_index - 1)))
\* A header with no end marker, or whose text is rejected or is read as
\* something other than a mapping (an empty header is read as None and is
\* well formed).
MalformedLines(lines) ==
    LET ends == {i \in 2..Len(lines) : str_strip(lines[i]) = "---"}
    IN  \/ ends = {}
        \/ HeaderLoaded(lines, Min(ends)) = YAMLError
        \/ HeaderLoaded(lines, Min(ends)).t \notin {"dict", "None"}
\* The readable files of the bounded world whose header is malformed,
\* computed once.
MalformedHeader ==
    {f \in FileUniverse :
        /\ f.readable
        /\ str_startswith(f.content, "---")
        /\ MalformedLines(str_split_on(f.content, "\n"))}
\* The document of a file taken as one without a header.
HeaderlessDocument(f, e) ==
    /\ e.id = path_stem(f.name) /\ e.filename = f.name
    /\ e.title = PyStr(path_stem(f.name))
    /\ e.topic = PyStr("") /\ e.tags = PyList(<<>>)
    /\ e.created = PyStr("") /\ e.updated = PyStr("")
    /\ e.content_raw = f.content

\* C14 as the claim states it: once a call has loaded the directory, every
\* file of it whose header is malformed is a document with the default
\* metadata and the whole content of the file as its body.
C14_MalformedHeaderLoaded ==
    call.op # "none" =>
        \A f \in Range(dir) \cap MalformedHeader :
            \E e \in Range(Documents) : HeaderlessDocument(f, e)

(***************************************************************************)
(* C15.  A file that fails to parse.                                       *)
(***************************************************************************)
Listed == _get_mdx_files(dir)

\* C15: a call that refreshed returned, left the time of the call as the
\* time stamp, left no entry for a listed file that fails to parse, and left
\* the entry of every listed file that parses.
C15_ParseFailureNotFatal ==
    (call.op # "none" /\ call.ctx.refreshed) =>
        /\ call.outcome = "return"
        /\ last_cache_update = call.ctx.time
        /\ \A i \in 1..Len(Listed) :
              IF ParsedFile[Listed[i]] = None
              THEN path_stem(Listed[i].name) \notin dict_keys(cache)
              ELSE dict_lookup(cache, path_stem(Listed[i].name)) = ParsedFile[Listed[i]]

\* A refresh at a later time of a directory that lists a file that fails
\* between two files that parse.
C15_Witness ==
    /\ call.op # "none" /\ call.ctx.refreshed /\ call.ctx.time > 0
    /\ Len(Listed) = 3
    /\ ParsedFile[Listed[1]] # None
    /\ ParsedFile[Listed[2]] = None
    /\ ParsedFile[Listed[3]] # None
    /\ Len(cache) = 2

(***************************************************************************)
(* C16.  What a reader sees of a refresh.                                  *)
(***************************************************************************)
\* The map the refresh the reader met makes of the files it listed, and the
\* map it makes of the first k of them.
NewMap(r) == refresh_from(r.mdx_files)
MapAfter(r, k) == refresh_from(SubSeq(r.mdx_files, 1, k))

\* C16 as the claim states it: a thread that reads the cache, at whatever
\* point of a refresh by another thread, reads the whole map of before the
\* refresh or the whole map the refresh makes.
C16_NoPartialState ==
    observed.valid =>
        \/ observed.map = observed.refresh.previous
        \/ observed.map = NewMap(observed.refresh)

\* C16, amended: a thread that reads the cache while no refresh is under way
\* reads the whole map the last refresh made; a thread that reads it while
\* another thread refreshes reads the map of before the refresh until line
\* 130 has run, and from then on the map of the files parsed so far, which
\* is empty at first and lacks the files not yet parsed.
C16_ReaderSeesRefreshSteps ==
    observed.valid =>
        CASE observed.refresh.pc = "idle" -> observed.map = NewMap(observed.refresh)
          [] observed.refresh.pc = "clear" -> observed.map = observed.refresh.previous
          [] observed.refresh.pc = "loop" ->
                observed.map = MapAfter(observed.refresh, observed.refresh.done)

\* A thread read the cache in the middle of the loop of a refresh: the map
\* held one document, the map before held two, and so does the new one.
C16_Witness ==
    /\ observed.valid
    /\ observed.refresh.pc = "loop"
    /\ Len(observed.map) = 1
    /\ Len(observed.refresh.previous) = 2
    /\ Len(NewMap(observed.refresh)) = 2
    /\ observed.value = None
    /\ dict_lookup(observed.refresh.previous, observed.entry_id) # None
    /\ dict_lookup(NewMap(observed.refresh), observed.entry_id) # None

(***************************************************************************)
(* C17.  The list of topics and the list of tags.                          *)
(***************************************************************************)
\* The documents are as the storage format asks: the topic a str, the tags
\* a list.
AsTheFormatAsks == \A e \in Range(Documents) : e.topic.t = "str" /\ e.tags.t = "list"
Ascending(xs) == \A i, j \in 1..Len(xs) : i < j => LabelLess[xs[i], xs[j]]

\* C17: over documents that are as the storage format asks, get_topics
\* returns the topics of the documents that are not empty, and get_tags the
\* tags of all documents, each value once and in ascending order of the
\* code points of its characters.
C17_TopicsAndTags ==
    /\ (call.op = "topics" /\ AsTheFormatAsks) =>
          /\ ~ call.failed
          /\ Range(call.value) = {e.topic : e \in Range(Documents)} \ {PyStr("")}
          /\ Ascending([i \in 1..Len(call.value) |-> call.value[i].v])
    /\ (call.op = "tags" /\ AsTheFormatAsks) =>
          /\ ~ call.failed
          /\ Range(call.value) = UNION {Range(e.tags.v) : e \in Range(Documents)}
          /\ Ascending(call.value)

\* get_topics found a topic twice, a topic that is empty and topics out of
\* order in the corpus, one of them in small letters.
C17_Witness ==
    /\ call.op = "topics" /\ AsTheFormatAsks
    /\ Len(Documents) = 3 /\ Len(call.value) = 2
    /\ \E i, j \in 1..3 : i < j /\ LabelLess[Documents[j].topic.v, Documents[i].topic.v]
                                 /\ Documents[j].topic.v # ""
    /\ \E i \in 1..3 : Documents[i].topic.v = "brewing"

(***************************************************************************)
(* C18.  The documents similar to a document.                              *)
(***************************************************************************)
\* 0.7 x |keywords(target) \cap keywords(doc)| + 0.3 x [topic(doc) = topic(target)],
\* in tenths.
Similarity(target, doc) ==
    7 * Cardinality(Range(target.keywords) \cap Range(doc.keywords))
      + (IF doc.topic = target.topic THEN 3 ELSE 0)
Target == CHOOSE e \in Range(Documents) : e.id = call.args.entry_id
SimilarDocuments == {e \in Range(Documents) : e # Target /\ Similarity(Target, e) > 0}
\* A call of get_similar_entries for a document of the corpus, with a count
\* as max_results.
SimilarToKnown ==
    /\ call.op = "similar"
    /\ call.args.entry_id \in DocumentIds
    /\ IsInt(call.args.max_results) /\ call.args.max_results.v >= 0

\* C18: for a known target, get_similar_entries returns documents other than
\* the target whose score is greater than 0, each once, in descending order
\* of score, as many as max_results allows, and none it leaves out has a
\* higher score than one it returns.
C18_SimilarEntries ==
    SimilarToKnown =>
        /\ ~ call.failed
        /\ Range(call.value) \subseteq SimilarDocuments
        /\ Target \notin Range(call.value)
        /\ Len(call.value) = Min({call.args.max_results.v, Cardinality(SimilarDocuments)})
        /\ \A i, j \in 1..Len(call.value) :
              i < j => /\ call.value[i] # call.value[j]
                       /\ Similarity(Target, call.value[i]) >= Similarity(Target, call.value[j])
        /\ \A e \in SimilarDocuments \ Range(call.value) :
              \A i \in 1..Len(call.value) :
                  Similarity(Target, e) <= Similarity(Target, call.value[i])

\* A call for a known target with max_results 1 in a corpus of three
\* documents: one is returned, one of a lower score above 0 is cut off.
C18_Witness ==
    /\ SimilarToKnown
    /\ call.args.max_results.v = 1
    /\ Len(Documents) = 3
    /\ Len(call.value) = 1
    /\ \E e \in SimilarDocuments :
          Similarity(Target, e) < Similarity(Target, call.value[1])

(***************************************************************************)
(* C19.  A fresh cache.                                                    *)
(***************************************************************************)
\* What the operation of the last call returns on a list of entries and a
\* cache.
AnswerFrom(c) ==
    CASE call.op = "search" ->
            search_knowledge_base(dict_values(c), call.args.query, call.args.max_results,
                                  call.args.min_score).value
      [] call.op = "similar" ->
            get_similar_entries(dict_values(c), call.args.entry_id, call.args.max_results).value
      [] call.op = "get" -> get_entry_by_id(c, call.args.entry_id).value
      [] call.op = "topics" -> get_topics(dict_values(c)).value
      [] call.op = "tags" -> get_tags(dict_values(c)).value
\* The last call came less than 300 seconds after the last refresh and found
\* documents in the cache.
CalledOnFreshCache ==
    /\ call.op # "none"
    /\ call.ctx.stamp_before # NoTime
    /\ 0 <= call.ctx.elapsed /\ call.ctx.elapsed < 300
    /\ ~ call.ctx.was_empty

\* C19: a call less than 300 seconds after the last refresh, on a cache that
\* is not empty, does not read the directory, leaves the cache and the time
\* stamp as they were and answers from the documents of the cache, whatever
\* has happened to the files.
C19_FreshCacheKept ==
    CalledOnFreshCache =>
        /\ ~ call.ctx.refreshed
        /\ cache = call.ctx.cache_before
        /\ last_cache_update = call.ctx.stamp_before
        /\ call.value = AnswerFrom(call.ctx.cache_before)

\* A search 299 seconds after the refresh, after a change of the files that
\* would change the list of documents.
C19_Witness ==
    /\ CalledOnFreshCache
    /\ call.op = "search"
    /\ call.ctx.elapsed = 299
    /\ ~ touched
    /\ ~ call.ctx.current
    /\ Len(call.value) > 0

(***************************************************************************)
(* C20.  A refresh is a full reload.                                       *)
(***************************************************************************)
\* The items the listed files that parse make.
LoadedItems ==
    {[key |-> path_stem(Listed[i].name), value |-> ParsedFile[Listed[i]]] :
        i \in {j \in 1..Len(Listed) : ParsedFile[Listed[j]] # None}}
\* The last call refreshed, and the directory is as that call found it.
JustRefreshed == call.op # "none" /\ call.ctx.refreshed /\ ~ touched

\* C20: right after a refresh the cache holds one entry for every listed
\* file that parses, the entry of that file as it is now, and no other
\* entry; a refresh that found in the cache what the files make leaves the
\* same content.
C20_RefreshIsFullReload ==
    JustRefreshed =>
        /\ Range(cache) = LoadedItems
        /\ Len(cache) = Cardinality(LoadedItems)
        /\ Range(call.ctx.cache_before) = LoadedItems => Range(cache) = Range(call.ctx.cache_before)

\* A second refresh of files that have not changed, one of which does not
\* parse: the cache held what the files make, and holds it again.
C20_Witness ==
    /\ JustRefreshed
    /\ call.ctx.cache_before # <<>>
    /\ Range(call.ctx.cache_before) = LoadedItems
    /\ \E i \in 1..Len(Listed) : ParsedFile[Listed[i]] = None
    /\ call.ctx.time > call.ctx.stamp_before


(***************************************************************************)
(* The business logic on the event loop of the server.  A call starts a    *)
(* coroutine, which runs to its first await; each later step runs one      *)
(* coroutine from the await it is suspended at to its next await or to its *)
(* end, and no other coroutine runs in between.  The awaits are the        *)
(* asyncio.sleep of simulate_delay: the one at the head of the function    *)
(* and the one at the head of get_customer.  The clock stands still: the   *)
(* dates of the calls are years from it.                                   *)
(***************************************************************************)
Customer0 == [id |-> "CUST0000", name |-> "Customer 0", phone |-> "+15550000000",
              email |-> "customer0@example.com", joined_date |-> "2026-10-30T08:00:00"]
Order0 == [id |-> "ORD0000", customer_id |-> "CUST0000", total |-> "12.5",
           status |-> "Delivered", date |-> "2026-10-31T09:30:00", items |-> 2]
Monday10 == "2030-01-07T10:00:00"
Monday11 == "2030-01-07T11:00:00"
Appointment0 == [id |-> "APT0000", customer_id |-> "CUST0000", customer_name |-> "Customer 0",
                 date |-> Monday10, service |-> "Consultation", status |-> "Scheduled"]
Appointment1 == [id |-> "APT0001", customer_id |-> "CUST0000", customer_name |-> "Customer 0",
                 date |-> "2026-10-30T09:00:00", service |-> "Follow-up", status |-> "Completed"]
\* An appointment of a customer that the store does not hold.
AppointmentOrphan == [id |-> "APT0002", customer_id |-> "CUST0007",
                      customer_name |-> "Customer 7", date |-> "2030-01-08T10:00:00",
                      service |-> "Consultation", status |-> "Scheduled"]

\* The stores a run begins with, as load_or_generate_mock_data leaves them:
\* the sample data empty.
LoadedStores ==
    { [customers |-> <<Customer0>>, appointments |-> appointments, orders |-> <<Order0>>,
       sample_data |-> <<>>] :
          appointments \in { <<>>, <<Appointment1>>, <<Appointment0, Appointment1>>,
                             <<Appointment0, AppointmentOrphan>> } }

ScheduleArgs ==
    { [customer_id |-> PyStr(c), date |-> PyStr(d), service |-> PyStr("Consultation")] :
          c \in {"CUST0000"}, d \in {Monday10, Monday11, "2030-01-05T10:00:00"} }
      \cup { [customer_id |-> PyStr("CUST0009"), date |-> PyStr(Monday10),
              service |-> PyStr("Consultation")] }
RescheduleArgs ==
    { [appointment_id |-> PyStr(a), new_date |-> PyStr(d), new_service |-> PyStr("Training")] :
          a \in {"APT0000"}, d \in {Monday11, "2030-01-06T10:00:00",
                                    "2030-01-07T08:59:59", "2020-01-06T10:00:00",
                                    "2030-01-07 10h"} }
      \cup { [appointment_id |-> PyStr(a), new_date |-> PyStr(Monday11),
              new_service |-> PyStr("Training")] : a \in {"APT0001", "APT0002", "APT0009"} }
UpdateStatusArgs ==
    { [appointment_id |-> PyStr(a), new_status |-> PyStr(st)] :
          a \in {"APT0000"}, st \in {"Cancelled", "Done"} }
      \cup { [appointment_id |-> PyStr("APT0009"), new_status |-> PyStr("Cancelled")] }
CreateArgs ==
    { [name |-> PyStr("Ann"), phone |-> PyStr(ph), email |-> PyStr("ann@example.com")] :
          ph \in {"+15550000009", "+15550000000", " +15550000000"} }
      \cup { [name |-> PyStr("Ann"), phone |-> PyStr("+15550000009"),
              email |-> PyStr("customer0@example.com")],
             [name |-> PyStr("Ann"), phone |-> None, email |-> PyStr("ann@example.com")] }

\* The run has a call left to make.
CallsLeft == \E t \in 1..MaxCalls : tasks[t].pc = "new"

\* A call: the coroutine is made and runs to the await of its first line.
Starts(op, args) ==
    /\ LET t == Min({u \in 1..MaxCalls : tasks[u].pc = "new"})
       IN  tasks' = [tasks EXCEPT ![t] = [pc |-> "delay", op |-> op, args |-> args, at |-> 0]]
    /\ UNCHANGED <<MOCK_DATA, loaded_data, returned, knowledge>>

\* The coroutine t is suspended at the await pc of the function op.
SuspendedAt(t, op, pc) == tasks[t].pc = pc /\ tasks[t].op = op

\* The coroutine t goes on to the await of get_customer.
Awaits(t, at) ==
    /\ tasks' = [tasks EXCEPT ![t].pc = "get_customer", ![t].at = at]
    /\ UNCHANGED <<MOCK_DATA, loaded_data, returned, knowledge>>

\* The coroutine t ends: it leaves the store data and returns value.
Ends(t, data, value) ==
    /\ MOCK_DATA' = data
    /\ tasks' = [tasks EXCEPT ![t] = DoneTask]
    /\ returned' = [op |-> tasks[t].op, args |-> tasks[t].args, value |-> value,
                    before |-> MOCK_DATA, after |-> data]
    /\ UNCHANGED <<loaded_data, knowledge>>

ScheduleCalled(args) ==
    /\ CallsLeft
    /\ Starts("schedule_appointment", args)
RescheduleCalled(args) ==
    /\ CallsLeft
    /\ Starts("reschedule_appointment", args)
UpdateStatusCalled(args) ==
    /\ CallsLeft
    /\ Starts("update_appointment_status", args)
CreateCalled(args) ==
    /\ CallsLeft
    /\ Starts("create_new_customer", args)

\* schedule_appointment, lines 310-313: from its delay to that of get_customer.
ScheduleAfterDelay(t) ==
    /\ SuspendedAt(t, "schedule_appointment", "delay")
    /\ Awaits(t, 0)

\* schedule_appointment, line 313 to its end.
ScheduleAfterGetCustomer(t) ==
    /\ SuspendedAt(t, "schedule_appointment", "get_customer")
    /\ LET args == tasks[t].args
           stretch == schedule_appointment(MOCK_DATA, args.customer_id, args.date,
                                           args.service, datetime_now(now))
       IN  Ends(t, stretch.data, stretch.value)

\* reschedule_appointment, lines 434-477: it returns an error, or keeps the
\* appointment it found and awaits get_customer.  The appointment it keeps is
\* the dict in the list; no appointment is ever removed or moved, so that its
\* place in the list stands for it.
RescheduleAfterDelay(t) ==
    /\ SuspendedAt(t, "reschedule_appointment", "delay")
    /\ LET args == tasks[t].args
           error == reschedule_checks(MOCK_DATA, args.appointment_id, args.new_date,
                                      datetime_now(now))
       IN  IF error # None THEN Ends(t, MOCK_DATA, error)
           ELSE Awaits(t, find_appointment(MOCK_DATA.appointments, args.appointment_id.v))

\* reschedule_appointment, line 477 to its end.
RescheduleAfterGetCustomer(t) ==
    /\ SuspendedAt(t, "reschedule_appointment", "get_customer")
    /\ LET args == tasks[t].args
           stretch == reschedule_update(MOCK_DATA, tasks[t].at, args.new_date, args.new_service)
       IN  Ends(t, stretch.data, stretch.value)

\* update_appointment_status, line 512 to its end.
UpdateStatusAfterDelay(t) ==
    /\ SuspendedAt(t, "update_appointment_status", "delay")
    /\ LET args == tasks[t].args
           stretch == update_appointment_status(MOCK_DATA, args.appointment_id, args.new_status)
       IN  Ends(t, stretch.data, stretch.value)

\* create_new_customer, lines 582-589.
CreateAfterDelay(t) ==
    /\ SuspendedAt(t, "create_new_customer", "delay")
    /\ LET args == tasks[t].args
           error == create_checks(args.name, args.phone, args.email)
       IN  IF error # None THEN Ends(t, MOCK_DATA, error) ELSE Awaits(t, 0)

\* create_new_customer, line 589 to its end.  save_mock_data writes the file
\* or raises what open or json.dump raised, after the customer was added.
OSError == [raised |-> "OSError"]
CreateAfterGetCustomer(t, written) ==
    /\ SuspendedAt(t, "create_new_customer", "get_customer")
    /\ LET args == tasks[t].args
           stretch == create_new_customer(MOCK_DATA, args.name, args.phone, args.email,
                                          datetime_now(now))
       IN  /\ IsError(stretch.value) => written
           /\ Ends(t, stretch.data, IF written THEN stretch.value ELSE OSError)

InitStore ==
    /\ MOCK_DATA \in LoadedStores
    /\ loaded_data = MOCK_DATA
    /\ tasks = NoTasks
    /\ returned = NoReturn
    /\ dir = <<>>
    /\ now = 0
    /\ cache = <<>>
    /\ last_cache_update = NoTime
    /\ call = NoCall
    /\ prev = NoPrev
    /\ touched = FALSE
    /\ ticks = 0
    /\ fs_changes = 0
    /\ refresh = NoRefresh
    /\ reader = NoReader
    /\ observed = NotObserved

NextStore ==
    \/ \E args \in ScheduleArgs : ScheduleCalled(args)
    \/ \E args \in RescheduleArgs : RescheduleCalled(args)
    \/ \E args \in UpdateStatusArgs : UpdateStatusCalled(args)
    \/ \E args \in CreateArgs : CreateCalled(args)
    \/ \E t \in 1..MaxCalls : ScheduleAfterDelay(t)
    \/ \E t \in 1..MaxCalls : ScheduleAfterGetCustomer(t)
    \/ \E t \in 1..MaxCalls : RescheduleAfterDelay(t)
    \/ \E t \in 1..MaxCalls : RescheduleAfterGetCustomer(t)
    \/ \E t \in 1..MaxCalls : UpdateStatusAfterDelay(t)
    \/ \E t \in 1..MaxCalls : CreateAfterDelay(t)
    \/ \E t \in 1..MaxCalls, written \in BOOLEAN : CreateAfterGetCustomer(t, written)

SpecStore == InitStore /\ [][NextStore]_vars

(***************************************************************************)
(* C21.  The relevance score, part by part.                                *)
(***************************************************************************)
\* The tokens of a text: its maximal runs of letters and digits, lowercased.
AlnumSet == CharSet(LowerChars) \cup DigitSet
Tokens(text) == Runs(str_lower(text), CharSet(str_lower(text)) \ AlnumSet)
\* How many of the tokens of the query are among the tokens of a text.
Overlap(query, text) == Cardinality(Range(Tokens(query)) \cap Range(Tokens(text)))
RECURSIVE SumOver(_, _)
SumOver(f, n) == IF n = 0 THEN 0 ELSE SumOver(f, n - 1) + f[n]
\* The windows of two adjacent tokens of the query, by their place.
Windows(query) ==
    [i \in 1..(Len(Tokens(query)) - 1) |-> Tokens(query)[i] \o " " \o Tokens(query)[i + 1]]
\* The score as the parts add up: title 10, topic 8, tags 6, body 2,
\* keywords 4, the whole query 15, each window 8.  The body is read in small
\* letters, as the score reads it.
ScoreByParts(query, e) ==
    LET tags == PyIter(e.tags)
        body == str_lower(e.content_raw)
    IN  10 * Overlap(query, e.title.v)
          + 8 * Overlap(query, e.topic.v)
          + 6 * SumOver([i \in 1..Len(tags) |-> Overlap(query, tags[i])], Len(tags))
          + 2 * Overlap(query, e.content_raw)
          + 4 * Cardinality({k \in 1..Len(e.keywords) :
                                \E t \in Range(Tokens(query)) : str_contains(e.keywords[k], t)})
          + (IF str_contains(body, str_lower(query)) THEN 15 ELSE 0)
          + 8 * Cardinality({i \in 1..Len(Windows(query)) : str_contains(body, Windows(query)[i])})
\* Computed once.
ClaimedRelevance ==
    [query \in QueryUniverse, e \in {d \in EntryUniverse : ~ relevance_raises(d)}
        |-> ScoreByParts(query, e)]

\* C21: for the query of a search and every document the search scored, the
\* relevance score is 10 x the query tokens among the title words + 8 x those
\* among the topic words + 6 x those among the words of each tag + 2 x those
\* among the body words + 4 x the keywords that hold a query token + 15 if
\* the body holds the lowercased query + 8 for each window of two adjacent
\* query tokens the body holds; the tokens are the runs of letters and digits
\* of the lowercased query, whatever signs or spaces separate them.
C21_RelevanceFormula ==
    call.op = "search" =>
        \A e \in Scorable : RelevanceScore[call.args.query, e] = ClaimedRelevance[call.args.query, e]


(***************************************************************************)
(* C22.  The bonus of the semantic clusters.                               *)
(***************************************************************************)
\* The clusters one of whose terms is a token of the query.
ActiveClusters(query) ==
    {g \in 1..Len(semantic_groups) :
        Range(semantic_groups[g].keywords) \cap Range(Tokens(query)) # {}}
\* title+topic+tags+body of a document, in small letters.
DocumentText(e) ==
    str_lower(PyFormat(e.title) \o " " \o PyFormat(e.topic) \o " "
                \o str_join(" ", PyIter(e.tags)) \o " " \o e.content_raw)
\* The terms of a cluster that a text holds.
TermsHeld(g, text) == {t \in Range(semantic_groups[g].keywords) : str_contains(text, t)}
RECURSIVE SumOfSet(_, _)
SumOfSet(f, S) == IF S = {} THEN 0 ELSE LET x == CHOOSE y \in S : TRUE
                                        IN  f[x] + SumOfSet(f, S \ {x})
\* Computed once: the active clusters of every query, and 2.0 x the sum over
\* them of the terms the text of the document holds.
Active == [query \in QueryUniverse |-> ActiveClusters(query)]
ClaimedBonus ==
    [query \in QueryUniverse, e \in {d \in EntryUniverse : ~ relevance_raises(d)}
        |-> 2 * SumOfSet([g \in 1..Len(semantic_groups) |-> Cardinality(TermsHeld(g, DocumentText(e)))],
                         Active[query])]

\* C22: for the query of a search and every document the search scored, the
\* final semantic score is the relevance score plus 2.0 x the sum, over the
\* clusters of which a term is a token of the query, of the number of terms
\* of the cluster that title+topic+tags+body holds in small letters; with no
\* such cluster the final score is the relevance score.
C22_ClusterBonus ==
    call.op = "search" =>
        \A e \in Scorable :
            /\ FinalScore[call.args.query, e]
                 = RelevanceScore[call.args.query, e] + ClaimedBonus[call.args.query, e]
            /\ Active[call.args.query] = {}
                 => FinalScore[call.args.query, e] = RelevanceScore[call.args.query, e]

\* A search returned a document that got a bonus for the terms of a cluster
\* the query names, and whose text also holds a term of a cluster the query
\* does not name.
C22_Witness ==
    /\ SearchOk
    /\ \E i \in 1..Len(call.value) :
          /\ ~ relevance_raises(call.value[i])
          /\ ClaimedBonus[call.args.query, call.value[i]] > 0
          /\ RelevanceScore[call.args.query, call.value[i]] > 0
          /\ \E g \in (1..Len(semantic_groups)) \ Active[call.args.query] :
                TermsHeld(g, DocumentText(call.value[i])) # {}


(***************************************************************************)
(* C23.  A search whose query holds no priority key.                       *)
(***************************************************************************)
\* The places in the corpus of the documents whose semantic score reaches
\* min_score, and the rank of such a document among them: by descending
\* score, those of equal score by their place in the corpus.
Qualifying(places) ==
    {i \in places : FinalScore[call.args.query, Documents[i]] >= call.args.min_score.v}
RankAmong(places, i) ==
    1 + Cardinality({j \in places :
                        \/ FinalScore[call.args.query, Documents[j]]
                             > FinalScore[call.args.query, Documents[i]]
                        \/ /\ FinalScore[call.args.query, Documents[j]]
                                = FinalScore[call.args.query, Documents[i]]
                           /\ j < i})
\* The first n of the documents at these places, in the order of their rank.
RankedFirst(places, n) ==
    [k \in 1..(IF n < Cardinality(places) THEN n ELSE Cardinality(places)) |->
        Documents[CHOOSE i \in places : RankAmong(places, i) = k]]
NoPrioritySearch ==
    /\ SearchOk
    /\ ~ Blank(call.args.query)
    /\ MatchedKeys[call.args.query] = {}

\* C23: a search whose query holds no priority key returns exactly the
\* documents of the corpus whose semantic score is at least min_score, by
\* descending score, those of equal score in the order of the corpus, cut to
\* the first max_results.
C23_NoPriorityKey ==
    NoPrioritySearch =>
        call.value = RankedFirst(Qualifying(1..Len(Documents)), call.args.max_results.v)

\* Such a search returned two documents of equal score and left out a third
\* that reached min_score, for want of room.
C23_Witness ==
    /\ NoPrioritySearch
    /\ Len(call.value) = 2
    /\ FinalScore[call.args.query, call.value[1]] = FinalScore[call.args.query, call.value[2]]
    /\ Cardinality(Qualifying(1..Len(Documents))) > call.args.max_results.v


(***************************************************************************)
(* C24.  A search whose query holds priority keys.                         *)
(***************************************************************************)
PrioritySearch ==
    /\ SearchOk
    /\ ~ Blank(call.args.query)
    /\ MatchedKeys[call.args.query] # {}
\* The priority head: the documents of the corpus that a matched key names,
\* in the order in which the keys of the query first mention their files.
PriorityHead ==
    LET rank(i) ==
            1 + Cardinality({j \in PriorityDocuments :
                                MentionedBefore(call.args.query, Documents[j].filename,
                                                Documents[i].filename)})
    IN  [k \in 1..Cardinality(PriorityDocuments) |->
            Documents[CHOOSE i \in PriorityDocuments : rank(i) = k]]
\* The documents outside the head that reach min_score, by descending score.
Fill ==
    RankedFirst(Qualifying((1..Len(Documents)) \ PriorityDocuments), Len(Documents))

\* C24: a search whose query holds priority keys returns the priority head,
\* then the documents outside the head whose semantic score is at least
\* min_score, by descending score, as far as max_results leaves room: the
\* first max_results of the head followed by those documents.
C24_HeadThenFill ==
    PrioritySearch =>
        call.value = SubSeq(PriorityHead \o Fill, 1,
                            IF call.args.max_results.v < Len(PriorityHead \o Fill)
                            THEN call.args.max_results.v ELSE Len(PriorityHead \o Fill))

\* Such a search returned a head of two documents, in another order than the
\* corpus lists them, and a third document after them.
C24_Witness ==
    /\ PrioritySearch
    /\ Len(PriorityHead) = 2
    /\ Len(call.value) = 3
    /\ IndexOf(Documents, call.value[1]) > IndexOf(Documents, call.value[2])
    /\ call.value[3].filename \notin Prioritised(call.args.query)

(***************************************************************************)
(* C25.  No file twice among the priority files, no document twice in the  *)
(* result.                                                                 *)
(***************************************************************************)
NoRepeat(xs) == \A i, j \in 1..Len(xs) : xs[i] = xs[j] => i = j
\* Every file once, the files in the order of their first mention.
OnceAtFirstMention(query, files) ==
    /\ NoRepeat(files)
    /\ Range(files) = Prioritised(query)
    /\ \A i, j \in 1..Len(files) : MentionedBefore(query, files[i], files[j]) => i < j
\* Computed once.
PriorityFilesOnce == [query \in QueryUniverse |-> OnceAtFirstMention(query, PriorityFiles[query])]
\* The files that more than one matched key names.
NamedTwice(query) ==
    {f \in Prioritised(query) :
        Cardinality({k \in MatchedKeys[query] : f \in Range(_get_priority_mappings[k].files)}) > 1}

\* C25: the priority files of the query of a search hold every file the
\* matched keys name once, at the place of its first mention, and the search
\* returns no document twice.
C25_NoDuplicates ==
    call.op = "search" =>
        /\ PriorityFilesOnce[call.args.query]
        /\ NoRepeat(call.value)

\* A search whose keys name one file twice returned the document of that
\* file, and a document no key names.
C25_Witness ==
    /\ PrioritySearch
    /\ \E i \in 1..Len(call.value) : call.value[i].filename \in NamedTwice(call.args.query)
    /\ \E i \in 1..Len(call.value) : call.value[i].filename \notin Prioritised(call.args.query)

(***************************************************************************)
(* C26.  Priority keys that name no document of the corpus.                *)
(***************************************************************************)
KeysWithoutDocuments ==
    /\ PrioritySearch
    /\ Len(Documents) > 0
    /\ PriorityDocuments = {}

\* C26: a search whose query holds priority keys of which no file is in the
\* corpus returns what the branch without priority files returns for the
\* same corpus and arguments.
C26_AsWithoutPriority ==
    KeysWithoutDocuments =>
        call.value = search_except(search_semantic(Documents, call.args.query,
                                                   call.args.max_results,
                                                   call.args.min_score)).value

\* Such a search returned two documents and left out a document below
\* min_score.
C26_Witness ==
    /\ KeysWithoutDocuments
    /\ Len(call.value) = 2
    /\ \E d \in Range(Documents) : FinalScore[call.args.query, d] < call.args.min_score.v

(***************************************************************************)
(* C27.  No double booking: from a store in which no two appointments      *)
(* share a date, whatever calls of schedule_appointment and                *)
(* reschedule_appointment run, interleaved at their awaits, no two         *)
(* appointments of the store hold the same date string.                    *)
(***************************************************************************)
DateShared(data) ==
    \E i, j \in 1..Len(data.appointments) :
        i < j /\ data.appointments[i].date = data.appointments[j].date

C27_NoDoubleBooking == ~ DateShared(loaded_data) => ~ DateShared(MOCK_DATA)

(***************************************************************************)
(* C28.  Data integrity is preserved: if the store as loaded has unique    *)
(* customer ids, unique appointment ids and no appointment of a customer   *)
(* it does not hold, then so has the store after any calls of              *)
(* create_new_customer, schedule_appointment, reschedule_appointment and   *)
(* update_appointment_status, whether they succeed or return an error.     *)
(***************************************************************************)
Integrity(data) ==
    /\ ~ HasDuplicates(IdsOf(data.customers))
    /\ ~ HasDuplicates(IdsOf(data.appointments))
    /\ Orphaned(data.appointments, data.customers) = <<>>

C28_IntegrityPreserved == Integrity(loaded_data) => Integrity(MOCK_DATA)

\* The store was loaded with the one appointment APT0001, so that its ids are
\* not the first ones; a customer and an appointment were added to it.
C28_Witness ==
    /\ Integrity(loaded_data)
    /\ loaded_data.appointments = <<Appointment1>>
    /\ Len(MOCK_DATA.appointments) > Len(loaded_data.appointments)
    /\ Len(MOCK_DATA.customers) > Len(loaded_data.customers)

(***************************************************************************)
(* C29.  create_new_customer never adds a customer whose phone is the      *)
(* phone of a customer of the store or whose email is the email of a       *)
(* customer of the store: it returns the error 'Customer already exists    *)
(* with this phone or email' and leaves the list of customers as it was.   *)
(***************************************************************************)
\* The customer that the call would add has the phone or the email of a
\* customer of the list.
AlreadyThere(customers, args) ==
    \E i \in 1..Len(customers) :
        \/ customers[i].phone = str_strip(args.phone.v)
        \/ customers[i].email = str_strip(args.email.v)

C29_NoSharedPhoneOrEmail ==
    ( /\ returned.op = "create_new_customer"
      /\ Truthy(returned.args.name) /\ Truthy(returned.args.phone)
      /\ Truthy(returned.args.email)
      /\ AlreadyThere(returned.before.customers, returned.args) )
    => /\ returned.value = Error("Customer already exists with this phone or email")
       /\ returned.after.customers = returned.before.customers

(***************************************************************************)
(* C30.  When reschedule_appointment returns an error, no appointment's    *)
(* date, service or status is changed; and reschedule_appointment never    *)
(* sets an appointment that is Cancelled or Completed back to Scheduled.   *)
(***************************************************************************)
\* The call that ended last was one of reschedule_appointment.
Rescheduled == returned.op = "reschedule_appointment"

\* The last step of that call left the date, the service and the status of
\* every appointment as they were.  (Its steps before the last one leave the
\* whole store as it was: RescheduleAfterDelay.)
AppointmentsKept ==
    /\ Len(returned.after.appointments) = Len(returned.before.appointments)
    /\ \A i \in 1..Len(returned.before.appointments) :
           LET old == returned.before.appointments[i]
               new == returned.after.appointments[i]
           IN  old.date = new.date /\ old.service = new.service /\ old.status = new.status

ErrorReturnsChangeNothing == (Rescheduled /\ IsError(returned.value)) => AppointmentsKept

\* The last step of that call found an appointment Cancelled or Completed
\* and left it Scheduled.
SetBackToScheduled ==
    \E i \in 1..Len(returned.before.appointments) :
        /\ returned.before.appointments[i].status \in {"Cancelled", "Completed"}
        /\ returned.after.appointments[i].status = "Scheduled"

C30_ErrorsLeaveAppointments ==
    /\ ErrorReturnsChangeNothing
    /\ Rescheduled => ~ SetBackToScheduled

====
